---- MODULE Spec2Model ----
(***************************************************************************)
(* Model of the natural-language query path of the cybersecurity demo:     *)
(*   src/python/cortex_analyst_integration.py  (query_cortex_analyst,      *)
(*       display_cortex_results, create_cortex_analyst_interface)          *)
(*   src/python/streamlit_cybersecurity_demo.py (run_query, the hunting    *)
(*       section's Execute Search, generate_ai_response, the chatbot       *)
(*       section)                                                          *)
(*   src/streamlit_app.py and src/streamlit/cybersecurity_ai_demo.py       *)
(*       (main, get_anomaly_data, get_threat_data, show_threat_detection)  *)
(* One action is one Streamlit script run: the handler of the widget the   *)
(* user touched, run to completion.  Everything a script run computes is   *)
(* local to it, so every action rewrites all the per-run variables; only   *)
(* the cache of run_query and st.session_state live on between runs.       *)
(*                                                                         *)
(*   Spec          the analyst interface (create_cortex_analyst_interface) *)
(*   SpecRender    the display functions applied to bounded rows and types *)
(*   SpecClassify  generate_ai_response applied to bounded questions       *)
(*   SpecHunt      the hunting section with run_query and its cache        *)
(*   SpecCache     the functions under st.cache_data, called repeatedly    *)
(*   SpecChat      the chatbot section with its conversation history       *)
(*   SpecNav       the navigation of the three apps, and the threat panel  *)
(*                 of the two dashboard apps with its loader               *)
(***************************************************************************)
EXTENDS Integers, Sequences, FiniteSets, TLC

VARIABLES
    section,        \* which handler the last script run executed
    question,       \* the question text it was given (a sequence of characters)
    context,        \* the analysis context passed to query_cortex_analyst
    env,            \* what session.sql(...) did during the run
    response,       \* the dict query_cortex_analyst returned
    reply,          \* what generate_ai_response returned
    search_results, \* the DataFrame run_query returned to the hunting section
    rendered,       \* the st.* elements the run emitted, in order
    sqlCalls,       \* the session.sql(...) calls the run made, in order
    raised,         \* the exception that escaped the handler, or NoException
    query_cache,    \* st.cache_data's entries for run_query, by query text
    clicked,        \* the widget whose event started the last chatbot script run
    chat_history,   \* st.session_state.chat_history
    chat_input,     \* st.session_state.chat_input, the value of the text input
    ss_user_input,  \* st.session_state.user_input, set by the sample buttons
    app,            \* the app whose navigation the last script run went through
    panels          \* the sections or show_* panels that run called, in order

vars == <<section, question, context, env, response, reply, search_results,
          rendered, sqlCalls, raised, query_cache,
          clicked, chat_history, chat_input, ss_user_input, app, panels>>

\* The session state of the chatbot section.
chatVars == <<clicked, chat_history, chat_input, ss_user_input>>
navVars == <<app, panels>>

(***************************************************************************)
(* Python values.  Every value carries its type tag, so that values of     *)
(* different Python types are never confused.                              *)
(***************************************************************************)
JNull == [t |-> "null"]
JStr(s) == [t |-> "str", v |-> s]
JNum(n) == [t |-> "num", v |-> n]
JList(xs) == [t |-> "list", v |-> xs]
\* A selection of column names of a DataFrame.
JCols(cs) == [t |-> "columns", v |-> cs]
\* A dict: f maps each key to its value, keys lists the keys in insertion order.
JObj(keys, f) == [t |-> "obj", v |-> f, keys |-> keys]

\* Python truthiness: None, '', 0, [] and {} are falsy.
Truthy(x) ==
    CASE x.t = "null" -> FALSE
      [] x.t = "str" -> x.v # ""
      [] x.t = "num" -> x.v # 0
      [] x.t = "list" -> Len(x.v) > 0
      [] x.t = "obj" -> DOMAIN x.v # {}
      [] OTHER -> TRUE

\* dict.get(key, default): the default only when the key is absent; a key
\* that is present with the value None yields None.
DictGet(d, key, default) ==
    IF key \in DOMAIN d.v THEN d.v[key] ELSE default

\* A variable that holds nothing yet; no exception.
NoValue == [t |-> "none"]
NoException == "none"

(***************************************************************************)
(* Characters and substring tests.  A text whose content is inspected      *)
(* (questions, column names) is a sequence of one-character strings.       *)
(***************************************************************************)
Upper == <<"A","B","C","D","E","F","G","H","I","J","K","L","M",
           "N","O","P","Q","R","S","T","U","V","W","X","Y","Z">>
LowerLetters == <<"a","b","c","d","e","f","g","h","i","j","k","l","m",
                  "n","o","p","q","r","s","t","u","v","w","x","y","z">>

\* str.lower() on one character.
LowerChar(c) ==
    IF \E i \in 1..Len(Upper) : Upper[i] = c
    THEN LowerLetters[CHOOSE i \in 1..Len(Upper) : Upper[i] = c]
    ELSE c

\* str.lower()
Lower(s) == [i \in 1..Len(s) |-> LowerChar(s[i])]

\* k in s  (Python substring containment)
Contains(s, k) ==
    \E i \in 1..(Len(s) - Len(k) + 1) : SubSeq(s, i, i + Len(k) - 1) = k

(***************************************************************************)
(* What the analyst function can hand back.  Result tables.                *)
(***************************************************************************)
Row2(c1, v1, c2, v2) == JObj(<<c1, c2>>, (c1 :> v1) @@ (c2 :> v2))
Row1(c1, v1) == JObj(<<c1>>, (c1 :> v1))
Row3(c1, v1, c2, v2, c3, v3) ==
    JObj(<<c1, c2, c3>>, (c1 :> v1) @@ (c2 :> v2) @@ (c3 :> v3))

RowsBySeverity ==
    <<Row2("SEVERITY", JStr("critical"), "INCIDENT_COUNT", JNum(3)),
      Row2("SEVERITY", JStr("high"), "INCIDENT_COUNT", JNum(7))>>
RowsTrend ==
    <<Row2("EVENT_DATE", JStr("2024-01-01"), "INCIDENT_COUNT", JNum(3)),
      Row2("EVENT_DATE", JStr("2024-01-02"), "INCIDENT_COUNT", JNum(5))>>
RowsMetric == <<Row1("TOTAL_INCIDENTS", JNum(12))>>
RowsLatency == <<Row2("RESPONSE_TIME", JNum(40), "INCIDENT_COUNT", JNum(3))>>
RowsNames == <<Row1("USERNAME", JStr("john.smith")), Row1("USERNAME", JStr("alex.brown"))>>
RowsByCountry ==
    <<Row3("COUNTRY", JStr("RU"), "SEVERITY", JStr("critical"), "INCIDENT_COUNT", JNum(3)),
      Row3("COUNTRY", JStr("CN"), "SEVERITY", JStr("high"), "INCIDENT_COUNT", JNum(7))>>

SqlIncidents == "SELECT severity, COUNT(*) FROM security_incidents GROUP BY severity"
TextIncidents == "Incidents by severity"

VizBar == JObj(<<"type", "data", "title">>,
               [type |-> JStr("bar_chart"), data |-> JList(RowsBySeverity),
                title |-> JStr("By severity")])
VizPie == JObj(<<"type", "data">>,
               [type |-> JStr("pie"), data |-> JList(RowsBySeverity)])

\* The objects the analyst's answer can denote.
ObjFull ==
    JObj(<<"sql", "results", "explanation", "visualizations">>,
         [sql |-> JStr(SqlIncidents), results |-> JList(RowsBySeverity),
          explanation |-> JStr(TextIncidents), visualizations |-> JList(<<VizBar>>)])
ObjTrend ==
    JObj(<<"sql", "results">>,
         [sql |-> JStr(SqlIncidents), results |-> JList(RowsTrend)])
ObjMetric ==
    JObj(<<"results", "explanation">>,
         [results |-> JList(RowsMetric), explanation |-> JStr(TextIncidents)])
ObjLatency ==
    JObj(<<"sql", "results">>,
         [sql |-> JStr(SqlIncidents), results |-> JList(RowsLatency)])
ObjNames ==
    JObj(<<"results", "visualizations">>,
         [results |-> JList(RowsNames), visualizations |-> JList(<<VizPie>>)])
ObjEmptySql ==
    JObj(<<"sql", "results", "explanation">>,
         [sql |-> JStr(""), results |-> JList(<<>>), explanation |-> JStr(TextIncidents)])
ObjTextOnly == JObj(<<"explanation">>, [explanation |-> JStr(TextIncidents)])
ObjNullResults ==
    JObj(<<"sql", "results">>, [sql |-> JStr(SqlIncidents), results |-> JNull])
ObjScalarResults == JObj(<<"results">>, [results |-> JStr("N/A")])
ObjBadViz ==
    JObj(<<"results", "visualizations">>,
         [results |-> JList(RowsMetric), visualizations |-> JList(<<JStr("bar_chart")>>)])
ObjEmpty == JObj(<<>>, <<>>)
\* Answers that carry follow-up suggestions, a key the function never reads.
Suggestions == JList(<<JStr("Show incidents by severity"), JStr("Show open incidents")>>)
ObjSuggestions ==
    JObj(<<"explanation", "suggestions">>,
         [explanation |-> JStr(TextIncidents), suggestions |-> Suggestions])
ObjSqlSuggestions ==
    JObj(<<"sql", "results", "suggestions">>,
         [sql |-> JStr(SqlIncidents), results |-> JList(RowsNames),
          suggestions |-> Suggestions])

Objects ==
    {ObjFull, ObjTrend, ObjMetric, ObjLatency, ObjNames, ObjEmptySql, ObjTextOnly,
     ObjNullResults, ObjScalarResults, ObjBadViz, ObjEmpty, ObjSuggestions,
     ObjSqlSuggestions}

\* The serialised form of an object: the text whose json.loads is that object.
JsonText(o) == [t |-> "str", json |-> o]
\* Texts that are no JSON document, and JSON documents that are no object.
NotJson == {JStr(""), JStr("Service unavailable")}
JsonNonObjects == {JsonText(JNull), JsonText(JList(<<>>)), JsonText(JStr("ok"))}

\* The value of the ANALYST_RESPONSE column: a str (a VARIANT or VARCHAR
\* arrives as text), None (SQL NULL), or an already decoded dict.
Payloads ==
    {JsonText(o) : o \in Objects} \cup NotJson \cup JsonNonObjects
      \cup {JNull} \cup {ObjFull, ObjEmpty}

(***************************************************************************)
(* query_cortex_analyst(question, context)                                 *)
(***************************************************************************)
Contexts == {"general", "incidents", "users", "vulnerabilities", "threats", "trends"}

\* The one statement the function sends: the analyst is a SQL function that
\* is reached through the same session as every other query.
AnalystQuery == "SELECT cortex_security_assistant(%s, %s) as analyst_response"

\* What session.sql(query, [question, context]).collect() can do.  The module
\* defines no name `session`: unless the host application supplies one the
\* lookup itself fails (NameError).  A session that is there can raise (the
\* function is not deployed, the network or the service fails) or return rows.
AnalystOutcomes ==
    {[kind |-> "NameError", rows |-> <<>>],
     [kind |-> "SnowparkSQLException", rows |-> <<>>],
     [kind |-> "rows", rows |-> <<>>]}
      \cup {[kind |-> "rows", rows |-> <<[ANALYST_RESPONSE |-> p]>>] : p \in Payloads}

Return(v) == [kind |-> "return", val |-> v]
Raise(exc) == [kind |-> "raise", exc |-> exc]

\* A variant that calls again after a failed call.
AnalystSqlCallsRetry(q, ctx, e) ==
    LET call == [query |-> AnalystQuery, context |-> ctx]
    IN  IF e.kind = "NameError" THEN <<>>
        ELSE IF e.kind = "SnowparkSQLException" THEN <<call, call>>
        ELSE <<call>>

\* A variant that reaches the backend before it looks the session up.
AnalystSqlCallsEager(q, ctx, e) ==
    <<[query |-> AnalystQuery, context |-> ctx]>>

\* The session.sql(...) calls one query_cortex_analyst call makes, in order.
\* Each carries the run's question and its context as bind parameters.
AnalystSqlCalls(q, ctx, e) ==
    IF e.kind = "NameError"
    THEN <<>>
    ELSE <<[query |-> AnalystQuery, context |-> ctx]>>

\* json.loads(text)
JsonLoads(text) ==
    IF "json" \in DOMAIN text THEN Return(text.json) ELSE Raise("JSONDecodeError")

\* A variant that takes the rows from the answer's suggestions when it has some.
BuildSuccessRowsFromSuggestions(parsed) ==
    IF parsed.t # "obj"
    THEN Raise("AttributeError")
    ELSE Return([success |-> TRUE,
                 sql_query |-> DictGet(parsed, "sql", JStr("")),
                 results |-> DictGet(parsed, "suggestions",
                                     DictGet(parsed, "results", JList(<<>>))),
                 explanation |-> DictGet(parsed, "explanation", JStr("")),
                 visualizations |-> DictGet(parsed, "visualizations", JList(<<>>)),
                 raw_response |-> parsed])

\* The dict built once the answer is parsed.  Only a dict has .get.
BuildSuccess(parsed) ==
    IF parsed.t # "obj"
    THEN Raise("AttributeError")
    ELSE Return([success |-> TRUE,
                 sql_query |-> DictGet(parsed, "sql", JStr("")),
                 results |-> DictGet(parsed, "results", JList(<<>>)),
                 explanation |-> DictGet(parsed, "explanation", JStr("")),
                 visualizations |-> DictGet(parsed, "visualizations", JList(<<>>)),
                 raw_response |-> parsed])

\* A variant that answers an empty result with an empty success.
NoResponseAsEmptySuccess ==
    [success |-> TRUE, sql_query |-> JStr(""), results |-> JList(<<>>),
     explanation |-> JStr(""), visualizations |-> JList(<<>>), raw_response |-> JNull]

NoResponseError ==
    [success |-> FALSE,
     error |-> [prefix |-> "No response from Cortex Analyst", cause |-> ""]]

\* A variant that turns a failure into an empty success.
ExceptResponseAsEmptySuccess(exc) ==
    [success |-> TRUE, sql_query |-> JStr(""), results |-> JList(<<>>),
     explanation |-> JStr(""), visualizations |-> JList(<<>>), raw_response |-> JNull]

\* A variant whose failure dict depends on the exception caught.
ExceptResponseWithResults(exc) ==
    IF exc = "NameError"
    THEN [success |-> FALSE,
          error |-> [prefix |-> "Cortex Analyst query failed: ", cause |-> exc]]
    ELSE [success |-> FALSE, results |-> JList(<<>>),
          error |-> [prefix |-> "Cortex Analyst query failed: ", cause |-> exc]]

\* A variant whose failure dict carries no message.
ExceptResponseUnreadable(exc) ==
    [success |-> FALSE, error |-> [prefix |-> "", cause |-> ""]]

ExceptResponse(exc) ==
    [success |-> FALSE,
     error |-> [prefix |-> "Cortex Analyst query failed: ", cause |-> exc]]

\* The body of the try block.
TryBody(q, ctx, e) ==
    IF e.kind # "rows"
    THEN Raise(e.kind)
    ELSE IF Len(e.rows) = 0
    THEN Return(NoResponseError)
    ELSE LET payload == e.rows[1].ANALYST_RESPONSE
             parsed == IF payload.t = "str" THEN JsonLoads(payload) ELSE Return(payload)
         IN  IF parsed.kind = "raise" THEN parsed ELSE BuildSuccess(parsed.val)

\* A variant whose handler names the connector's exception only.
ExceptionCaughtNarrow(exc) == exc = "SnowparkSQLException"

\* The exception classes that `except Exception` catches: every exception
\* the try block can raise derives from Exception.
ExceptionCaught(exc) ==
    exc \in {"NameError", "SnowparkSQLException", "JSONDecodeError", "AttributeError",
             "KeyError", "TypeError"}

\* A variant that looks for the session first and answers its absence with
\* the error of an empty result.
query_cortex_analyst_guarded(q, ctx, e) ==
    LET body == TryBody(q, ctx, e)
    IN  IF e.kind = "NameError"
        THEN Return(NoResponseError)
        ELSE IF body.kind = "raise" /\ ExceptionCaught(body.exc)
        THEN Return(ExceptResponse(body.exc))
        ELSE body

query_cortex_analyst(q, ctx, e) ==
    LET body == TryBody(q, ctx, e)
    IN  IF body.kind = "raise" /\ ExceptionCaught(body.exc)
        THEN Return(ExceptResponse(body.exc))
        ELSE body

(***************************************************************************)
(* display_cortex_results and the two functions it calls.  A rendering is  *)
(* the sequence of st.* elements emitted, and the exception that stopped   *)
(* it (NoException when it ran to its end).                                *)
(***************************************************************************)
El(name, arg) == [el |-> name, arg |-> arg]
Shown(out) == [out |-> out, exc |-> NoException]
Crashed(out, exc) == [out |-> out, exc |-> exc]

\* The characters of a column name.
ColumnChars(c) ==
    CASE c = "SEVERITY" ->
           <<"S","E","V","E","R","I","T","Y">>
      [] c = "INCIDENT_COUNT" ->
           <<"I","N","C","I","D","E","N","T","_","C","O","U","N","T">>
      [] c = "EVENT_DATE" ->
           <<"E","V","E","N","T","_","D","A","T","E">>
      [] c = "TOTAL_INCIDENTS" ->
           <<"T","O","T","A","L","_","I","N","C","I","D","E","N","T","S">>
      [] c = "RESPONSE_TIME" ->
           <<"R","E","S","P","O","N","S","E","_","T","I","M","E">>
      [] c = "USERNAME" ->
           <<"U","S","E","R","N","A","M","E">>
      [] c = "COUNTRY" ->
           <<"C","O","U","N","T","R","Y">>
      [] OTHER -> <<>>

\* pd.DataFrame(list of records): the columns are the keys of the records in
\* their order; a list of values that are no records gives the one column 0,
\* and an empty list gives no column.
DataFrame(xs) ==
    [columns |-> IF Len(xs) = 0 THEN <<>>
                 ELSE IF xs[1].t = "obj" THEN xs[1].keys ELSE <<"0">>,
     rows |-> xs]

IsNumericCol(df, c) ==
    \A i \in 1..Len(df.rows) : df.rows[i].t = "obj" /\ df.rows[i].v[c].t = "num"
IsDateName(c) ==
    \/ Contains(Lower(ColumnChars(c)), <<"d","a","t","e">>)
    \/ Contains(Lower(ColumnChars(c)), <<"t","i","m","e">>)

numeric_cols(df) == SelectSeq(df.columns, LAMBDA c : IsNumericCol(df, c))
categorical_cols(df) == SelectSeq(df.columns, LAMBDA c : ~IsNumericCol(df, c))
date_cols(df) == SelectSeq(df.columns, LAMBDA c : IsDateName(c))

\* Index.any(): some column name of the index is non-empty.
IndexAny(cols) == \E i \in 1..Len(cols) : cols[i] # ""

InSeq(x, xs) == \E i \in 1..Len(xs) : xs[i] = x

\* A variant that draws every visualization whose condition holds.
display_auto_visualizations_all(df) ==
    IF Len(df.rows) = 0 \/ Len(df.columns) = 0
    THEN Shown(<<>>)
    ELSE IF Len(date_cols(df)) > 0 /\ IndexAny(numeric_cols(df))
            /\ InSeq(date_cols(df)[1], numeric_cols(df))
    THEN Crashed(<<El("st.markdown", JStr("Trend Analysis"))>>, "KeyError")
    ELSE Shown(
        (IF Len(date_cols(df)) > 0 /\ IndexAny(numeric_cols(df))
         THEN <<El("st.markdown", JStr("Trend Analysis")),
                El("st.line_chart", JCols(numeric_cols(df)))>>
         ELSE <<>>)
        \o (IF IndexAny(categorical_cols(df)) /\ IndexAny(numeric_cols(df))
            THEN <<El("st.markdown", JStr("Distribution")),
                   El("st.bar_chart",
                      JCols(<<categorical_cols(df)[1], numeric_cols(df)[1]>>))>>
            ELSE <<>>)
        \o (IF Len(df.rows) = 1 /\ IndexAny(numeric_cols(df))
            THEN <<El("st.markdown", JStr("Key Metrics"))>>
                 \o [i \in 1..Len(numeric_cols(df)) |->
                       El("st.metric", JCols(<<numeric_cols(df)[i]>>))]
            ELSE <<>>))

display_auto_visualizations(df) ==
    IF Len(df.rows) = 0 \/ Len(df.columns) = 0
    THEN Shown(<<>>)
    ELSE IF Len(date_cols(df)) > 0 /\ IndexAny(numeric_cols(df))
    THEN \* set_index moves the date column out of the columns; selecting the
         \* numeric columns afterwards fails when the date column is numeric.
         IF InSeq(date_cols(df)[1], numeric_cols(df))
         THEN Crashed(<<El("st.markdown", JStr("Trend Analysis"))>>, "KeyError")
         ELSE Shown(<<El("st.markdown", JStr("Trend Analysis")),
                      El("st.line_chart", JCols(numeric_cols(df)))>>)
    ELSE IF IndexAny(categorical_cols(df)) /\ IndexAny(numeric_cols(df))
    THEN Shown(<<El("st.markdown", JStr("Distribution")),
                 El("st.bar_chart",
                    JCols(<<categorical_cols(df)[1], numeric_cols(df)[1]>>))>>)
    ELSE IF Len(df.rows) = 1 /\ IndexAny(numeric_cols(df))
    THEN Shown(<<El("st.markdown", JStr("Key Metrics"))>>
               \o [i \in 1..Len(numeric_cols(df)) |->
                     El("st.metric", JCols(<<numeric_cols(df)[i]>>))])
    ELSE Shown(<<>>)

\* A variant that has a chart for the type pie.
VizElementPie(viz_type) ==
    CASE viz_type = JStr("bar_chart") -> "st.bar_chart"
      [] viz_type = JStr("line_chart") -> "st.line_chart"
      [] viz_type = JStr("area_chart") -> "st.area_chart"
      [] viz_type = JStr("scatter_chart") -> "st.scatter_chart"
      [] viz_type = JStr("pie") -> "st.plotly_chart"
      [] OTHER -> "st.dataframe"

\* The chart call display_visualization makes for a type.
VizElement(viz_type) ==
    CASE viz_type = JStr("bar_chart") -> "st.bar_chart"
      [] viz_type = JStr("line_chart") -> "st.line_chart"
      [] viz_type = JStr("area_chart") -> "st.area_chart"
      [] viz_type = JStr("scatter_chart") -> "st.scatter_chart"
      [] OTHER -> "st.dataframe"

\* A variant that shows a message in place of a chart of no data.
display_visualization_empty_state(viz) ==
    IF viz.t # "obj"
    THEN Crashed(<<>>, "AttributeError")
    ELSE LET viz_type == DictGet(viz, "type", JStr("table"))
             data == DictGet(viz, "data", JList(<<>>))
             title == DictGet(viz, "title", JStr("Chart"))
         IN  IF data.t \notin {"list", "obj"}
             THEN Crashed(<<El("st.markdown", title)>>, "ValueError")
             ELSE IF ~Truthy(data)
             THEN Shown(<<El("st.markdown", title), El("st.info", JStr("No data"))>>)
             ELSE Shown(<<El("st.markdown", title), El(VizElement(viz_type), data)>>)

display_visualization(viz) ==
    IF viz.t # "obj"
    THEN Crashed(<<>>, "AttributeError")
    ELSE LET viz_type == DictGet(viz, "type", JStr("table"))
             data == DictGet(viz, "data", JList(<<>>))
             title == DictGet(viz, "title", JStr("Chart"))
         IN  IF data.t \notin {"list", "obj"}
             THEN Crashed(<<El("st.markdown", title)>>, "ValueError")
             ELSE Shown(<<El("st.markdown", title), El(VizElement(viz_type), data)>>)

\* for viz in vs: display_visualization(viz), stopping at the first exception.
RECURSIVE DisplayAll(_)
DisplayAll(vs) ==
    IF Len(vs) = 0
    THEN Shown(<<>>)
    ELSE LET first == display_visualization(Head(vs))
         IN  IF first.exc # NoException
             THEN first
             ELSE LET rest == DisplayAll(Tail(vs))
                  IN  [out |-> first.out \o rest.out, exc |-> rest.exc]

\* Sequencing of two parts of a rendering: the second part runs only when
\* the first one ended normally.
Then(a, b) == IF a.exc # NoException THEN a ELSE [out |-> a.out \o b.out, exc |-> b.exc]

ExplanationPart(r) ==
    IF Truthy(r.explanation)
    THEN Shown(<<El("st.markdown", JStr("Analysis")), El("st.info", r.explanation)>>)
    ELSE Shown(<<>>)

\* A variant that tells the user when there are no results.
ResultsPartNoData(r) ==
    IF ~Truthy(r.results)
    THEN Shown(<<El("st.info", JStr("No data"))>>)
    ELSE IF r.results.t = "list" /\ Len(r.results.v) > 0
    THEN Then(Shown(<<El("st.markdown", JStr("Results")), El("st.dataframe", r.results)>>),
              display_auto_visualizations(DataFrame(r.results.v)))
    ELSE Shown(<<El("st.markdown", JStr("Results")), El("st.write", r.results)>>)

ResultsPart(r) ==
    IF ~Truthy(r.results)
    THEN Shown(<<>>)
    ELSE IF r.results.t = "list" /\ Len(r.results.v) > 0
    THEN Then(Shown(<<El("st.markdown", JStr("Results")), El("st.dataframe", r.results)>>),
              display_auto_visualizations(DataFrame(r.results.v)))
    ELSE Shown(<<El("st.markdown", JStr("Results")), El("st.write", r.results)>>)

SqlPart(r) ==
    IF Truthy(r.sql_query)
    THEN Shown(<<El("st.expander", JStr("Generated SQL Query")), El("st.code", r.sql_query)>>)
    ELSE Shown(<<>>)

VisualizationsPart(r) ==
    IF ~Truthy(r.visualizations)
    THEN Shown(<<>>)
    ELSE IF r.visualizations.t # "list"
    THEN Crashed(<<El("st.markdown", JStr("Visualizations"))>>, "AttributeError")
    ELSE Then(Shown(<<El("st.markdown", JStr("Visualizations"))>>),
              DisplayAll(r.visualizations.v))

\* A variant that returns on a failure without showing it.
display_cortex_results_quiet(r) ==
    IF ~r.success
    THEN Shown(<<>>)
    ELSE Then(ExplanationPart(r),
         Then(ResultsPart(r),
         Then(SqlPart(r), VisualizationsPart(r))))

display_cortex_results(r) ==
    IF ~r.success
    THEN Shown(<<El("st.error", r.error)>>)
    ELSE Then(ExplanationPart(r),
         Then(ResultsPart(r),
         Then(SqlPart(r), VisualizationsPart(r))))


(***************************************************************************)
(* create_cortex_analyst_interface: the widgets whose click runs            *)
(* query_cortex_analyst and then display_cortex_results.                   *)
(***************************************************************************)
\* Questions typed into the text area.
QHello ==
    <<"h","e","l","l","o">>
QUsersLogin ==
    <<"W","h","i","c","h"," ","u","s","e","r","s"," ","h","a","v","e"," ","u","n","u","s","u",
    "a","l"," ","l","o","g","i","n"," ","p","a","t","t","e","r","n","s","?">>
QIncidentsMalware ==
    <<"S","h","o","w"," ","m","e"," ","c","r","i","t","i","c","a","l"," ","i","n","c","i","d",
    "e","n","t","s"," ","a","n","d"," ","m","a","l","w","a","r","e">>

TypedQuestions == {QHello, QUsersLogin, QIncidentsMalware}

\* The four Quick Analytics buttons: the question and context each sends.
QuickActions ==
    LET QuickIncidents ==
            <<"S","h","o","w"," ","m","e"," ","a"," ","s","e","c","u","r","i","t","y"," ","i","n","c",
            "i","d","e","n","t"," ","d","a","s","h","b","o","a","r","d"," ","w","i","t","h"," ","c","u",
            "r","r","e","n","t"," ","c","r","i","t","i","c","a","l"," ","i","n","c","i","d","e","n","t",
            "s",","," ","t","r","e","n","d","s",","," ","a","n","d"," ","s","t","a","t","u","s">>
        QuickUsers ==
            <<"A","n","a","l","y","z","e"," ","u","s","e","r"," ","r","i","s","k"," ","l","e","v","e",
            "l","s"," ","a","n","d"," ","s","h","o","w"," ","h","i","g","h","-","r","i","s","k"," ","u",
            "s","e","r","s"," ","w","i","t","h"," ","b","e","h","a","v","i","o","r","a","l"," ","a","n",
            "o","m","a","l","i","e","s">>
        QuickVulnerabilities ==
            <<"C","r","e","a","t","e"," ","a"," ","v","u","l","n","e","r","a","b","i","l","i","t","y",
            " ","r","e","p","o","r","t"," ","s","h","o","w","i","n","g"," ","c","r","i","t","i","c","a",
            "l"," ","C","V","E","s"," ","a","n","d"," ","p","a","t","c","h","i","n","g"," ","p","r","i",
            "o","r","i","t","i","e","s">>
        QuickThreats ==
            <<"A","n","a","l","y","z","e"," ","c","u","r","r","e","n","t"," ","t","h","r","e","a","t",
            " ","l","a","n","d","s","c","a","p","e"," ","w","i","t","h"," ","g","e","o","g","r","a","p",
            "h","i","c"," ","a","n","d"," ","t","h","r","e","a","t"," ","t","y","p","e"," ","a","n","a",
            "l","y","s","i","s">>
    IN  <<[question |-> QuickIncidents, context |-> "incidents"],
          [question |-> QuickUsers, context |-> "users"],
          [question |-> QuickVulnerabilities, context |-> "vulnerabilities"],
          [question |-> QuickThreats, context |-> "threats"]>>

\* get_example_questions(context)[:3]: the example buttons shown for a context.

example_questions(ctx) ==
    LET ExGeneral1 ==
            <<"W","h","a","t","'","s"," ","o","u","r"," ","o","v","e","r","a","l","l"," ","s","e","c",
            "u","r","i","t","y"," ","p","o","s","t","u","r","e","?">>
        ExGeneral2 ==
            <<"S","h","o","w"," ","m","e"," ","t","o","d","a","y","'","s"," ","s","e","c","u","r","i",
            "t","y"," ","s","u","m","m","a","r","y">>
        ExGeneral3 ==
            <<"W","h","a","t"," ","n","e","e","d","s"," ","i","m","m","e","d","i","a","t","e"," ","a",
            "t","t","e","n","t","i","o","n","?">>
        ExIncidents1 ==
            <<"H","o","w"," ","m","a","n","y"," ","c","r","i","t","i","c","a","l"," ","i","n","c","i",
            "d","e","n","t","s"," ","t","h","i","s"," ","w","e","e","k","?">>
        ExIncidents2 ==
            <<"W","h","a","t"," ","a","r","e"," ","t","h","e"," ","m","o","s","t"," ","c","o","m","m",
            "o","n"," ","i","n","c","i","d","e","n","t"," ","t","y","p","e","s","?">>
        ExIncidents3 ==
            <<"S","h","o","w"," ","i","n","c","i","d","e","n","t"," ","r","e","s","o","l","u","t","i",
            "o","n"," ","t","r","e","n","d","s">>
        ExUsers1 ==
            <<"W","h","i","c","h"," ","u","s","e","r","s"," ","h","a","v","e"," ","h","i","g","h","e",
            "s","t"," ","r","i","s","k"," ","s","c","o","r","e","s","?">>
        ExUsers2 ==
            <<"S","h","o","w"," ","l","o","g","i","n"," ","p","a","t","t","e","r","n","s"," ","b","y",
            " ","d","e","p","a","r","t","m","e","n","t">>
        ExUsers3 ==
            <<"W","h","o"," ","h","a","s"," ","u","n","u","s","u","a","l"," ","a","u","t","h","e","n",
            "t","i","c","a","t","i","o","n"," ","b","e","h","a","v","i","o","r","?">>
        ExVulnerabilities1 ==
            <<"W","h","a","t"," ","v","u","l","n","e","r","a","b","i","l","i","t","i","e","s"," ","s",
            "h","o","u","l","d"," ","w","e"," ","p","a","t","c","h"," ","f","i","r","s","t","?">>
        ExVulnerabilities2 ==
            <<"S","h","o","w"," ","C","V","S","S"," ","d","i","s","t","r","i","b","u","t","i","o","n",
            " ","o","f"," ","o","p","e","n"," ","v","u","l","n","e","r","a","b","i","l","i","t","i","e",
            "s">>
        ExVulnerabilities3 ==
            <<"W","h","i","c","h"," ","a","s","s","e","t","s"," ","h","a","v","e"," ","t","h","e"," ",
            "m","o","s","t"," ","c","r","i","t","i","c","a","l"," ","C","V","E","s","?">>
        ExThreats1 ==
            <<"W","h","a","t"," ","t","h","r","e","a","t"," ","t","y","p","e","s"," ","a","r","e"," ",
            "w","e"," ","s","e","e","i","n","g"," ","m","o","s","t","?">>
        ExThreats2 ==
            <<"S","h","o","w"," ","t","h","r","e","a","t"," ","i","n","t","e","l","l","i","g","e","n",
            "c","e"," ","b","y"," ","c","o","n","f","i","d","e","n","c","e"," ","l","e","v","e","l">>
        ExThreats3 ==
            <<"W","h","i","c","h"," ","c","o","u","n","t","r","i","e","s"," ","p","o","s","e"," ","t",
            "h","e"," ","h","i","g","h","e","s","t"," ","t","h","r","e","a","t","s","?">>
        ExTrends1 ==
            <<"H","o","w"," ","a","r","e"," ","s","e","c","u","r","i","t","y"," ","m","e","t","r","i",
            "c","s"," ","t","r","e","n","d","i","n","g","?">>
        ExTrends2 ==
            <<"S","h","o","w"," ","m","o","n","t","h","l","y"," ","i","n","c","i","d","e","n","t"," ",
            "p","a","t","t","e","r","n","s">>
        ExTrends3 ==
            <<"W","h","a","t","'","s"," ","o","u","r"," ","a","u","t","h","e","n","t","i","c","a","t",
            "i","o","n"," ","s","u","c","c","e","s","s"," ","r","a","t","e"," ","t","r","e","n","d",
            "?">>
    IN  CASE ctx = "general" -> <<ExGeneral1, ExGeneral2, ExGeneral3>>
          [] ctx = "incidents" -> <<ExIncidents1, ExIncidents2, ExIncidents3>>
          [] ctx = "users" -> <<ExUsers1, ExUsers2, ExUsers3>>
          [] ctx = "vulnerabilities" ->
               <<ExVulnerabilities1, ExVulnerabilities2, ExVulnerabilities3>>
          [] ctx = "threats" -> <<ExThreats1, ExThreats2, ExThreats3>>
          [] ctx = "trends" -> <<ExTrends1, ExTrends2, ExTrends3>>
          [] OTHER -> <<ExGeneral1, ExGeneral2, ExGeneral3>>

NoFrame == [columns |-> <<>>, rows |-> <<>>]

\* One click: the call, then the display of what it returned.  An exception
\* that leaves either of them ends the script run.
AnalystRun(q, ctx, e) ==
    LET call == query_cortex_analyst(q, ctx, e)
        shown == IF call.kind = "return"
                 THEN display_cortex_results(call.val)
                 ELSE Crashed(<<>>, call.exc)
    IN  /\ section' = "analyst"
        /\ question' = q
        /\ context' = ctx
        /\ env' = e
        /\ response' = IF call.kind = "return" THEN call.val ELSE NoValue
        /\ sqlCalls' = AnalystSqlCalls(q, ctx, e)
        /\ rendered' = shown.out
        /\ raised' = shown.exc
        /\ reply' = NoValue
        /\ search_results' = NoFrame
        /\ UNCHANGED <<query_cache, chatVars, navVars>>

QuickActionClick ==
    \E i \in 1..Len(QuickActions), e \in AnalystOutcomes :
        AnalystRun(QuickActions[i].question, QuickActions[i].context, e)

ExampleClick ==
    \E ctx \in Contexts, e \in AnalystOutcomes :
        \E i \in 1..Len(example_questions(ctx)) :
            AnalystRun(example_questions(ctx)[i], ctx, e)

\* The Analyze button is disabled while the text area is empty.
AnalyzeClick ==
    \E q \in TypedQuestions, ctx \in Contexts, e \in AnalystOutcomes :
        /\ Len(q) > 0
        /\ AnalystRun(q, ctx, e)

Init ==
    /\ section = "init"
    /\ question = <<>>
    /\ context = "general"
    /\ env = [kind |-> "none", rows |-> <<>>]
    /\ response = NoValue
    /\ reply = NoValue
    /\ search_results = NoFrame
    /\ rendered = <<>>
    /\ sqlCalls = <<>>
    /\ raised = NoException
    /\ query_cache = <<>>
    /\ clicked = "none"
    /\ chat_history = <<>>
    /\ chat_input = <<>>
    /\ ss_user_input = <<>>
    /\ app = "none"
    /\ panels = <<>>

Next == QuickActionClick \/ ExampleClick \/ AnalyzeClick

Spec == Init /\ [][Next]_vars

(***************************************************************************)
(* The display functions applied to a Response whose rows and chart type   *)
(* are drawn from bounded sets: display_visualization on its one           *)
(* visualization, display_auto_visualizations on the frame of its results, *)
(* and display_cortex_results on the whole.                                *)
(***************************************************************************)
\* Result tables of zero to three columns.
RenderRows ==
    {<<>>, RowsMetric, RowsNames, RowsBySeverity, RowsTrend, RowsLatency,
     RowsByCountry, <<RowsByCountry[1]>>}

\* Values of a visualization's `type`: the names the function tests for, the
\* chart hints of a Response, and a name that is neither.
ChartTypes ==
    {"bar_chart", "line_chart", "area_chart", "scatter_chart",
     "bar", "line", "pie", "heatmap", "table", "sankey"}

\* A visualization entry: with a type and a title, or with its data alone.
VizOf(type, rows) ==
    JObj(<<"type", "data", "title">>,
         [type |-> JStr(type), data |-> JList(rows), title |-> JStr("By severity")])
VizDataOnly(rows) == JObj(<<"data">>, [data |-> JList(rows)])

\* The success dict whose rows are shown once as results and once as the
\* data of its visualization.
RenderResponse(rows, viz) ==
    [success |-> TRUE, sql_query |-> JStr(""), results |-> JList(rows),
     explanation |-> JStr(""), visualizations |-> JList(<<viz>>),
     raw_response |-> JNull]

RenderResponses ==
    {RenderResponse(rows, VizOf(type, rows)) : rows \in RenderRows, type \in ChartTypes}
      \cup {RenderResponse(rows, VizDataOnly(rows)) : rows \in RenderRows}

InitRender ==
    /\ section = "init"
    /\ question = <<>>
    /\ context = "general"
    /\ env = [kind |-> "none", rows |-> <<>>]
    /\ response \in RenderResponses
    /\ reply = NoValue
    /\ search_results = NoFrame
    /\ rendered = <<>>
    /\ sqlCalls = <<>>
    /\ raised = NoException
    /\ query_cache = <<>>
    /\ clicked = "none"
    /\ chat_history = <<>>
    /\ chat_input = <<>>
    /\ ss_user_input = <<>>
    /\ app = "none"
    /\ panels = <<>>

\* One call of a display function: what it emitted and how it ended.
RenderRun(name, shown) ==
    /\ section = "init"
    /\ section' = name
    /\ rendered' = shown.out
    /\ raised' = shown.exc
    /\ UNCHANGED <<question, context, env, response, reply, search_results, sqlCalls,
                   query_cache, chatVars, navVars>>

DisplayVisualization ==
    RenderRun("display_visualization", display_visualization(response.visualizations.v[1]))

DisplayAutoVisualizations ==
    RenderRun("display_auto_visualizations",
              display_auto_visualizations(DataFrame(response.results.v)))

DisplayCortexResults ==
    RenderRun("display_cortex_results", display_cortex_results(response))

NextRender == DisplayVisualization \/ DisplayAutoVisualizations \/ DisplayCortexResults

SpecRender == InitRender /\ [][NextRender]_vars

(***************************************************************************)
(* generate_ai_response(user_question): the chatbot's canned answers.      *)
(***************************************************************************)
\* The sample questions the chatbot section lists.

sample_questions ==
    LET Sample1 ==
            <<"S","h","o","w"," ","m","e"," ","a","l","l"," ","c","r","i","t","i","c","a","l"," ","s",
            "e","c","u","r","i","t","y"," ","i","n","c","i","d","e","n","t","s"," ","f","r","o","m"," ",
            "t","o","d","a","y">>
        Sample2 ==
            <<"W","h","a","t"," ","a","r","e"," ","t","h","e"," ","t","o","p"," ","5"," ","v","u","l",
            "n","e","r","a","b","i","l","i","t","i","e","s"," ","I"," ","s","h","o","u","l","d"," ","p",
            "a","t","c","h"," ","f","i","r","s","t","?">>
        Sample3 ==
            <<"W","h","i","c","h"," ","u","s","e","r","s"," ","h","a","v","e"," ","t","h","e"," ","h",
            "i","g","h","e","s","t"," ","i","n","s","i","d","e","r"," ","t","h","r","e","a","t"," ","s",
            "c","o","r","e","s","?">>
        Sample4 ==
            <<"F","i","n","d"," ","a","l","l"," ","l","o","g","i","n"," ","a","t","t","e","m","p","t",
            "s"," ","f","r","o","m"," ","R","u","s","s","i","a"," ","o","r"," ","C","h","i","n","a">>
        Sample5 ==
            <<"S","h","o","w"," ","m","e"," ","s","u","s","p","i","c","i","o","u","s"," ","f","i","n",
            "a","n","c","i","a","l"," ","t","r","a","n","s","a","c","t","i","o","n","s"," ","a","b","o",
            "v","e"," ","$","5","0","0","0">>
        Sample6 ==
            <<"W","h","a","t"," ","n","e","t","w","o","r","k"," ","s","e","c","u","r","i","t","y"," ",
            "e","v","e","n","t","s"," ","h","a","p","p","e","n","e","d"," ","i","n"," ","t","h","e"," ",
            "l","a","s","t"," ","h","o","u","r","?">>
    IN  <<Sample1, Sample2, Sample3, Sample4, Sample5, Sample6>>

\* The six topics the default answer lists.
GuidanceTopics ==
    <<"Security incidents and alerts", "Vulnerability management",
      "Threat hunting queries", "Fraud detection analysis",
      "Insider threat assessment", "Network security events">>

Canned(topic, text) == [topic |-> topic, text |-> text, echo |-> <<>>, topics |-> <<>>]

\* A variant that tests for the countries before every other topic.
AnswerForCountriesFirst(ql, user_question) ==
    IF \/ Contains(ql, <<"r","u","s","s","i","a">>)
       \/ Contains(ql, <<"c","h","i","n","a">>)
       \/ Contains(ql, <<"r","u">>)
       \/ Contains(ql, <<"c","n">>)
    THEN Canned("foreign_logins", "Found login attempts from Russia and China:")
    ELSE IF Contains(ql, <<"c","r","i","t","i","c","a","l">>)
            /\ Contains(ql, <<"i","n","c","i","d","e","n","t">>)
    THEN Canned("incidents", "I found the current critical security incidents:")
    ELSE IF Contains(ql, <<"v","u","l","n","e","r","a","b","i","l","i","t">>)
            /\ (Contains(ql, <<"t","o","p">>) \/ Contains(ql, <<"p","a","t","c","h">>))
    THEN Canned("vulnerabilities",
                "Here are the top 5 vulnerabilities requiring immediate attention:")
    ELSE IF Contains(ql, <<"i","n","s","i","d","e","r"," ","t","h","r","e","a","t">>)
    THEN Canned("insider_threat", "Users with highest insider threat scores:")
    ELSE IF Contains(ql, <<"t","r","a","n","s","a","c","t","i","o","n">>)
            /\ (Contains(ql, <<"s","u","s","p","i","c","i","o","u","s">>)
                \/ Contains(ql, <<"5","0","0","0">>))
    THEN Canned("fraud", "Suspicious financial transactions above $5000:")
    ELSE IF Contains(ql, <<"n","e","t","w","o","r","k">>)
            /\ (Contains(ql, <<"h","o","u","r">>) \/ Contains(ql, <<"l","a","s","t">>))
    THEN Canned("network", "Network security events from the last hour:")
    ELSE [topic |-> "default", text |-> "I understand you're asking about: ",
          echo |-> user_question, topics |-> GuidanceTopics]

\* The answer chosen for the text ql, which is matched as it stands.
AnswerFor(ql, user_question) ==
    IF Contains(ql, <<"c","r","i","t","i","c","a","l">>)
       /\ Contains(ql, <<"i","n","c","i","d","e","n","t">>)
    THEN Canned("incidents", "I found the current critical security incidents:")
    ELSE IF Contains(ql, <<"v","u","l","n","e","r","a","b","i","l","i","t">>)
            /\ (Contains(ql, <<"t","o","p">>) \/ Contains(ql, <<"p","a","t","c","h">>))
    THEN Canned("vulnerabilities",
                "Here are the top 5 vulnerabilities requiring immediate attention:")
    ELSE IF Contains(ql, <<"i","n","s","i","d","e","r"," ","t","h","r","e","a","t">>)
    THEN Canned("insider_threat", "Users with highest insider threat scores:")
    ELSE IF \/ Contains(ql, <<"r","u","s","s","i","a">>)
            \/ Contains(ql, <<"c","h","i","n","a">>)
            \/ Contains(ql, <<"r","u">>)
            \/ Contains(ql, <<"c","n">>)
    THEN Canned("foreign_logins", "Found login attempts from Russia and China:")
    ELSE IF Contains(ql, <<"t","r","a","n","s","a","c","t","i","o","n">>)
            /\ (Contains(ql, <<"s","u","s","p","i","c","i","o","u","s">>)
                \/ Contains(ql, <<"5","0","0","0">>))
    THEN Canned("fraud", "Suspicious financial transactions above $5000:")
    ELSE IF Contains(ql, <<"n","e","t","w","o","r","k">>)
            /\ (Contains(ql, <<"h","o","u","r">>) \/ Contains(ql, <<"l","a","s","t">>))
    THEN Canned("network", "Network security events from the last hour:")
    ELSE [topic |-> "default", text |-> "I understand you're asking about: ",
          echo |-> user_question, topics |-> GuidanceTopics]

\* A variant that matches the question without lower-casing it.
generate_ai_response_cased(user_question) == AnswerFor(user_question, user_question)

generate_ai_response(user_question) == AnswerFor(Lower(user_question), user_question)

(***************************************************************************)
(* The questions generate_ai_response is applied to: the fixed ones, and   *)
(* every question of up to MaxWords words of a vocabulary.                 *)
(***************************************************************************)
MaxWords == 3

Vocabulary ==
    <<<<"c","r","i","t","i","c","a","l">>,
      <<"i","n","c","i","d","e","n","t","s">>,
      <<"v","u","l","n","e","r","a","b","i","l","i","t","i","e","s">>,
      <<"p","a","t","c","h">>,
      <<"i","n","s","i","d","e","r"," ","t","h","r","e","a","t">>,
      <<"R","u","s","s","i","a">>,
      <<"t","r","a","n","s","a","c","t","i","o","n","s">>,
      <<"s","u","s","p","i","c","i","o","u","s">>,
      <<"n","e","t","w","o","r","k">>,
      <<"h","o","u","r">>,
      <<"u","s","e","r","s">>,
      <<"m","a","l","w","a","r","e">>>>

RECURSIVE JoinWords(_)
\* ' '.join(words)
JoinWords(ws) ==
    IF Len(ws) = 0 THEN <<>>
    ELSE IF Len(ws) = 1 THEN Vocabulary[ws[1]]
    ELSE Vocabulary[ws[1]] \o <<" ">> \o JoinWords(Tail(ws))

WordLists == UNION {[1..n -> 1..Len(Vocabulary)] : n \in 1..MaxWords}

ChatQuestions ==
    {JoinWords(ws) : ws \in WordLists}
      \cup {QHello, QUsersLogin, QIncidentsMalware}
      \cup {sample_questions[i] : i \in 1..Len(sample_questions)}

InitClassify ==
    /\ section = "init"
    /\ question \in ChatQuestions
    /\ context = "general"
    /\ env = [kind |-> "none", rows |-> <<>>]
    /\ response = NoValue
    /\ reply = NoValue
    /\ search_results = NoFrame
    /\ rendered = <<>>
    /\ sqlCalls = <<>>
    /\ raised = NoException
    /\ query_cache = <<>>
    /\ clicked = "none"
    /\ chat_history = <<>>
    /\ chat_input = <<>>
    /\ ss_user_input = <<>>
    /\ app = "none"
    /\ panels = <<>>

\* generate_ai_response applied to the question.
Classify ==
    /\ reply = NoValue
    /\ reply' = generate_ai_response(question)
    /\ section' = "chatbot"
    /\ UNCHANGED <<question, context, env, response, search_results, rendered,
                   sqlCalls, raised, query_cache, chatVars, navVars>>

SpecClassify == InitClassify /\ [][Classify]_vars

(***************************************************************************)
(* run_query and the hunting section's Execute Search.                     *)
(***************************************************************************)
\* Queries typed into the hunting section's text area.
QueryNetworkLogs ==
    <<"S","E","L","E","C","T"," ","*"," ","F","R","O","M"," ","N","E","T","W","O","R","K","_",
    "S","E","C","U","R","I","T","Y","_","L","O","G","S">>
QueryDataAccess ==
    <<"S","E","L","E","C","T"," ","*"," ","F","R","O","M"," ","D","A","T","A","_","A","C","C",
    "E","S","S","_","L","O","G","S"," ","W","H","E","R","E"," ","b","y","t","e","s","_","a","c",
    "c","e","s","s","e","d"," ",">"," ","5","0","0","0","0","0","0","0">>
QueryBlank == <<" ", "\n", " ">>

SearchTexts == {QueryNetworkLogs, QueryDataAccess, QueryBlank, <<>>}

\* The tables the backend can answer with: rows, or the columns alone.
FrameRows ==
    [columns |-> <<"TIMESTAMP", "USERNAME">>,
     rows |-> <<Row2("TIMESTAMP", JStr("2024-01-01 10:00"), "USERNAME", JStr("john.smith")),
                Row2("TIMESTAMP", JStr("2024-01-01 11:00"), "USERNAME", JStr("alex.brown"))>>]
FrameNoRows == [columns |-> <<"TIMESTAMP", "USERNAME">>, rows |-> <<>>]

\* What session.sql(query).to_pandas() can do.
BackendOutcomes ==
    {[kind |-> "SnowparkSQLException", frame |-> NoFrame],
     [kind |-> "frame", frame |-> FrameRows],
     [kind |-> "frame", frame |-> FrameNoRows]}
NoCall == [kind |-> "none", frame |-> NoFrame]

\* DataFrame.empty: no rows or no columns.
IsEmptyFrame(df) == Len(df.rows) = 0 \/ Len(df.columns) = 0

\* str.strip() of the text is non-empty.
StripTruthy(s) == \E i \in 1..Len(s) : s[i] \notin {" ", "\n", "\t"}

Text(msg, cause) == [prefix |-> msg, cause |-> cause]

\* The body of run_query: the frame, or, when the backend raises, the error
\* shown in place and an empty frame.  `elements` are the st.* elements
\* emitted inside the function.
run_query_body(query, e) ==
    IF e.kind = "frame"
    THEN [value |-> e.frame, elements |-> <<>>]
    ELSE [value |-> NoFrame,
          elements |-> <<El("st.error", Text("Query error: ", e.kind))>>]

\* @st.cache_data(ttl=300) around it: an entry that is there is returned and
\* its elements are replayed without a call; otherwise the body runs, with
\* one session.sql call, and what it returned is stored.
run_query(query, e, cache) ==
    IF query \in DOMAIN cache
    THEN [value |-> cache[query].value, elements |-> cache[query].elements,
          calls |-> <<>>, cache |-> cache]
    ELSE LET got == run_query_body(query, e)
         IN  [value |-> got.value, elements |-> got.elements,
              calls |-> <<[text |-> query]>>,
              cache |-> (query :> got) @@ cache]

HuntRun(text, e, out, df, calls, cache) ==
    /\ section' = "hunting"
    /\ question' = text
    /\ env' = e
    /\ search_results' = df
    /\ rendered' = out
    /\ sqlCalls' = calls
    /\ query_cache' = cache
    /\ raised' = NoException
    /\ context' = "general"
    /\ response' = NoValue
    /\ reply' = NoValue
    /\ UNCHANGED <<chatVars, navVars>>

\* The Execute Search button.  run_query returns a frame whatever the
\* backend did, so the except branch of the handler has nothing to catch.
ExecuteSearch ==
    \E text \in SearchTexts :
        IF ~StripTruthy(text)
        THEN HuntRun(text, NoCall, <<El("st.warning", JStr("Please enter a query to execute."))>>,
                     NoFrame, <<>>, query_cache)
        ELSE \E e \in IF text \in DOMAIN query_cache THEN {NoCall} ELSE BackendOutcomes :
               LET got == run_query(text, e, query_cache)
                   shown ==
                     IF ~IsEmptyFrame(got.value)
                     THEN <<El("st.success", JStr("Found results")),
                            El("st.subheader", JStr("Search Results")),
                            El("st.dataframe", JCols(got.value.columns)),
                            El("st.download_button", JStr("Download Results as CSV"))>>
                     ELSE <<El("st.info", JStr("No results found for the given query."))>>
               IN  HuntRun(text, e, got.elements \o shown, got.value, got.calls, got.cache)

\* A Quick Searches button: it replaces the local search_query of this run,
\* in which Execute Search is not pressed, so nothing is executed.
QuickSearchClick ==
    \E text \in SearchTexts : HuntRun(text, NoCall, <<>>, NoFrame, <<>>, query_cache)

\* The Load Query button shows the selected pre-built query.
LoadQueryClick ==
    \E text \in SearchTexts :
        HuntRun(text, NoCall, <<El("st.code", JStr("hunting_queries[selected_query]"))>>,
                NoFrame, <<>>, query_cache)

\* An entry is dropped once its time to live, 300 seconds, is over.
CacheExpire ==
    \E q \in DOMAIN query_cache :
        /\ query_cache' = [k \in DOMAIN query_cache \ {q} |-> query_cache[k]]
        /\ UNCHANGED <<section, question, context, env, response, reply, search_results,
                       rendered, sqlCalls, raised, chatVars, navVars>>

InitHunt == Init

NextHunt == ExecuteSearch \/ QuickSearchClick \/ LoadQueryClick \/ CacheExpire

SpecHunt == InitHunt /\ [][NextHunt]_vars

(***************************************************************************)
(* The functions under @st.cache_data(ttl=300), called again and again     *)
(* while the backend changes: run_query of the demo, and get_anomaly_data  *)
(* of src/streamlit/cybersecurity_ai_demo.py with the Refresh Data button  *)
(* of that app, which clears the cache.  The two apps have a cache each,   *)
(* kept here in one function under keys that do not meet.  env             *)
(* is what session.sql(...).to_pandas() does at the time of the call,      *)
(* whether the call reaches it or is answered from the cache.              *)
(***************************************************************************)
\* A frame from its columns and its rows, each row a tuple of values in the
\* order of the columns.
Frame(columns, rows) ==
    [columns |-> columns,
     rows |-> [i \in 1..Len(rows) |->
                 JObj(columns, [c \in {columns[k] : k \in 1..Len(columns)} |->
                                  rows[i][CHOOSE k \in 1..Len(columns) : columns[k] = c]])]]

AnomalyColumns ==
    <<"USERNAME", "TIMESTAMP", "CURRENT_COUNTRY", "CURRENT_HOUR", "ACTIVITY_COUNT",
      "LINES_CHANGED", "SENSITIVE_REPO_ACCESS", "ANOMALY_SCORE", "CLASSIFICATION",
      "ANOMALY_INDICATORS">>

\* The sample table get_anomaly_data falls back to.
AnomalySample ==
    Frame(AnomalyColumns,
          <<<<JStr("john.smith"), JStr("2024-01-21 02:30:15"), JStr("CN"), JNum(2), JNum(15),
              JNum(5000), JNum(1), JNum(12), JStr("HIGH_ANOMALY"),
              JStr("['unusual_hour', 'unusual_location', 'large_code_changes', 'sensitive_repo_access']")>>,
            <<JStr("sarah.chen"), JStr("2024-01-24 14:22:10"), JStr("RU"), JNum(14), JNum(0),
              JNum(0), JNum(0), JNum(7), JStr("MEDIUM_ANOMALY"), JStr("['suspicious_location']")>>,
            <<JStr("mike.rodriguez"), JStr("2024-01-23 16:45:30"), JStr("US"), JNum(16), JNum(3),
              JNum(150), JNum(0), JNum(1), JStr("NORMAL"), JStr("[]")>>,
            <<JStr("john.smith"), JStr("2024-01-21 03:15:22"), JStr("CN"), JNum(3), JNum(12),
              JNum(500), JNum(1), JNum(9), JStr("HIGH_ANOMALY"),
              JStr("['unusual_hour', 'unusual_location', 'sensitive_repo_access']")>>,
            <<JStr("lisa.wang"), JStr("2024-01-22 09:30:00"), JStr("US"), JNum(9), JNum(2),
              JNum(80), JNum(0), JNum(0), JStr("NORMAL"), JStr("[]")>>>>)

\* Tables the view GITHUB_LOGIN_ANOMALY_DETECTION can hold: one anomaly, none.

LoaderOutcomes ==
    LET AnomalyLive ==
            Frame(AnomalyColumns,
                  <<<<JStr("alex.brown"), JStr("2024-02-02 23:10:00"), JStr("US"), JNum(23), JNum(4),
                      JNum(120), JNum(0), JNum(6), JStr("MEDIUM_ANOMALY"), JStr("unusual_hour")>>>>)
        AnomalyNone == Frame(AnomalyColumns, <<>>)
    IN  {[kind |-> "SnowparkSQLException", frame |-> NoFrame],
         [kind |-> "frame", frame |-> AnomalyLive],
         [kind |-> "frame", frame |-> AnomalyNone]}

\* The body of get_anomaly_data: the table of the view, or, when the query
\* raises, the error shown and the sample table.
get_anomaly_data_body(e) ==
    IF e.kind = "frame"
    THEN [value |-> e.frame, elements |-> <<>>]
    ELSE [value |-> AnomalySample,
          elements |-> <<El("st.error", Text("Error loading anomaly data: ", e.kind))>>]

\* The key of the one cache entry of a function without parameters.
AnomalyKey == <<"get_anomaly_data">>

\* @st.cache_data(ttl=300) around it.
get_anomaly_data(e, cache) ==
    IF AnomalyKey \in DOMAIN cache
    THEN [value |-> cache[AnomalyKey].value, elements |-> cache[AnomalyKey].elements,
          calls |-> <<>>, cache |-> cache]
    ELSE LET got == get_anomaly_data_body(e)
         IN  [value |-> got.value, elements |-> got.elements,
              calls |-> <<[text |-> AnomalyKey]>>,
              cache |-> (AnomalyKey :> got) @@ cache]

CachedCall(name, text, e, out, got) ==
    /\ section' = name
    /\ question' = text
    /\ env' = e
    /\ search_results' = got.value
    /\ rendered' = out
    /\ sqlCalls' = got.calls
    /\ query_cache' = got.cache
    /\ raised' = NoException
    /\ context' = "general"
    /\ response' = NoValue
    /\ reply' = NoValue
    /\ UNCHANGED <<chatVars, navVars>>

\* A call of run_query(query).
CallRunQuery ==
    \E text \in {QueryNetworkLogs, QueryDataAccess}, e \in BackendOutcomes :
        LET got == run_query(text, e, query_cache)
        IN  CachedCall("run_query", text, e, got.elements, got)

\* A call of get_anomaly_data().
CallGetAnomalyData ==
    \E e \in LoaderOutcomes :
        LET got == get_anomaly_data(e, query_cache)
        IN  CachedCall("get_anomaly_data", AnomalyKey, e, got.elements, got)

\* The Refresh Data button: st.cache_data.clear() empties the cache of every
\* function, and the panel below it loads its data in the same script run.
RefreshDataClick ==
    \E e \in LoaderOutcomes :
        LET got == get_anomaly_data(e, <<>>)
        IN  CachedCall("refresh", AnomalyKey, e,
                       <<El("st.success", JStr("Data refreshed!"))>> \o got.elements, got)

NextCache == CallRunQuery \/ CallGetAnomalyData \/ RefreshDataClick \/ CacheExpire

SpecCache == Init /\ [][NextCache]_vars

(***************************************************************************)
(* The chatbot section.  st.session_state lives on between script runs:    *)
(* chat_history, the text input's value under the key chat_input, and the  *)
(* key user_input that the sample buttons write.                           *)
(***************************************************************************)
\* The longest conversation history that is followed.
MaxLog == 4

\* Texts typed into the text input.
ChatTexts == {QHello, sample_questions[1]}

\* A str given by its characters.
Chars(s) == [t |-> "str", chars |-> s]

\* The dicts appended to chat_history.
UserMessage(content) == [role |-> "user", content |-> Chars(content)]
AssistantMessage(content) == [role |-> "assistant", content |-> content]

\* A variant in which the function is bound before the section runs.
CallGenerateAiResponseBound(user_input) == Return(generate_ai_response(user_input))

\* generate_ai_response(user_input) as line 1121 finds it.  The section is
\* module-level code of the if/elif chain; the def statement of the function
\* stands below the chain, at line 1257, and every script run starts from an
\* empty namespace: the name is not bound when the call is reached.
CallGenerateAiResponse(user_input) == Raise("NameError")

\* A variant that writes the new message over the last one of the history.
SubmitOverwriting(send, user_input, history) ==
    IF ~(send \/ Len(user_input) > 0) \/ Len(user_input) = 0
    THEN [history |-> history, reply |-> NoValue, exc |-> NoException]
    ELSE [history |-> IF Len(history) = 0
                      THEN <<UserMessage(user_input)>>
                      ELSE [history EXCEPT ![Len(history)] = UserMessage(user_input)],
          reply |-> NoValue, exc |-> "NameError"]

\* Lines 1115-1127: the messages appended and the exception that ends the
\* run.  Assigning st.session_state.chat_input after the text input with
\* that key was created raises StreamlitAPIException.
Submit(send, user_input, history) ==
    IF ~(send \/ Len(user_input) > 0) \/ Len(user_input) = 0
    THEN [history |-> history, reply |-> NoValue, exc |-> NoException]
    ELSE LET asked == Append(history, UserMessage(user_input))
             call == CallGenerateAiResponse(user_input)
         IN  IF call.kind = "raise"
             THEN [history |-> asked, reply |-> NoValue, exc |-> call.exc]
             ELSE [history |-> Append(asked, AssistantMessage(call.val)),
                   reply |-> call.val, exc |-> "StreamlitAPIException"]

\* What the section shows before the history.
ChatHeader ==
    <<El("st.title", JStr("Security Chatbot")),
      El("st.subheader", JStr("Ask the Security AI"))>>
HistoryHeading == El("st.subheader", JStr("Conversation History"))

\* A variant that shows the newest message first.
ShowHistoryNewestFirst(history) ==
    [i \in 1..Len(history) |-> El("st.markdown", history[Len(history) + 1 - i])]

\* for message in chat_history: st.markdown(...), one element per message.
ShowHistory(history) ==
    [i \in 1..Len(history) |-> El("st.markdown", history[i])]

\* A variant of the Clear button that takes back the last message only.
ClearedDropLast(history) == SubSeq(history, 1, Len(history) - 1)

\* st.session_state.chat_history = []
Cleared(history) == <<>>

\* One script run of the section, started by the event of `widget`, with
\* the text `input` in the text input.  An exception ends the run where it
\* is raised.  The Clear button is reached after the history was shown; it
\* empties the history and st.experimental_rerun() starts the script again
\* with no button pressed.
ChatRun(widget, input) ==
    LET sub == Submit(widget = "Send", input, chat_history)
        again == Submit(FALSE, input, Cleared(chat_history))
        last == IF sub.exc = NoException /\ widget = "Clear" THEN again ELSE sub
    IN  /\ Len(last.history) <= MaxLog
        /\ clicked' = widget
        /\ chat_input' = input
        /\ chat_history' = last.history
        /\ reply' = last.reply
        /\ raised' = last.exc
        /\ rendered' = IF last.exc = NoException
                       THEN ChatHeader \o <<HistoryHeading>> \o ShowHistory(last.history)
                       ELSE ChatHeader
        /\ section' = "chatbot"
        /\ question' = input
        /\ context' = "general"
        /\ env' = [kind |-> "none", rows |-> <<>>]
        /\ response' = NoValue
        /\ search_results' = NoFrame
        /\ sqlCalls' = <<>>
        /\ UNCHANGED <<query_cache, navVars>>

\* The user changes the text of the text input and commits it.
TypeQuestion ==
    \E q \in ChatTexts \cup {<<>>} :
        /\ q # chat_input
        /\ ChatRun("chat_input", q)
        /\ UNCHANGED ss_user_input

SendClick ==
    /\ ChatRun("Send", chat_input)
    /\ UNCHANGED ss_user_input

\* A sample button writes the key user_input, which nothing reads.
SampleClick ==
    \E i \in 1..Len(sample_questions) :
        /\ ss_user_input' = sample_questions[i]
        /\ ChatRun("sample", chat_input)

ClearClick ==
    /\ ChatRun("Clear", chat_input)
    /\ UNCHANGED ss_user_input

InitChat == Init

NextChat == TypeQuestion \/ SendClick \/ SampleClick \/ ClearClick

SpecChat == InitChat /\ [][NextChat]_vars

(***************************************************************************)
(* Navigation.  The two dashboard apps, src/streamlit_app.py and           *)
(* src/streamlit/cybersecurity_ai_demo.py, choose a show_* panel in main() *)
(* by substring tests over the selected label; the demo app chooses a      *)
(* section by looking the label up in demo_sections and comparing the key. *)
(* A label is the sequence of its characters, its leading emoji being one  *)
(* element.  The threat panel and its loader get_threat_data are followed  *)
(* to their end; every other panel or section is followed to its heading.  *)
(***************************************************************************)
\* The options of the selectbox "Select AI/ML Use Case", the same in both
\* dashboard apps.
UseCases ==
    LET LabelAnomaly ==
            <<"(magnifier)"," ","A","n","o","m","a","l","y"," ","D","e","t","e","c","t","i","o",
              "n">>
        LabelThreat ==
            <<"(target)"," ","T","h","r","e","a","t"," ","D","e","t","e","c","t","i","o","n",
              " ","&"," ","R","e","s","p","o","n","s","e">>
        LabelVulnerability ==
            <<"(warning)"," ","V","u","l","n","e","r","a","b","i","l","i","t","y"," ","P","r",
              "i","o","r","i","t","i","z","a","t","i","o","n">>
        LabelGrc ==
            <<"(clipboard)"," ","G","R","C"," ","&"," ","C","o","m","p","l","i","a","n","c",
              "e">>
        LabelTriage ==
            <<"(robot)"," ","A","I"," ","A","l","e","r","t"," ","T","r","i","a","g","e">>
    IN  <<LabelAnomaly, LabelThreat, LabelVulnerability, LabelGrc, LabelTriage>>

\* A variant whose fourth test does not match the label of its option.
main_dispatch_and(use_case) ==
    IF Contains(use_case, <<"A","n","o","m","a","l","y"," ","D","e","t","e","c","t","i","o","n">>)
    THEN <<"show_anomaly_detection">>
    ELSE IF Contains(use_case, <<"T","h","r","e","a","t"," ","D","e","t","e","c","t","i","o","n">>)
    THEN <<"show_threat_detection">>
    ELSE IF Contains(use_case, <<"V","u","l","n","e","r","a","b","i","l","i","t","y"," ","P","r","i","o","r","i","t","i","z","a","t","i","o","n">>)
    THEN <<"show_vulnerability_prioritization">>
    ELSE IF Contains(use_case, <<"G","R","C"," ","a","n","d"," ","C","o","m","p","l","i","a","n","c","e">>)
    THEN <<"show_grc_compliance">>
    ELSE IF Contains(use_case, <<"A","I"," ","A","l","e","r","t"," ","T","r","i","a","g","e">>)
    THEN <<"show_ai_alert_triage">>
    ELSE <<>>

\* The if/elif chain at the end of main(): the panels it calls.
main_dispatch(use_case) ==
    IF Contains(use_case, <<"A","n","o","m","a","l","y"," ","D","e","t","e","c","t","i","o","n">>)
    THEN <<"show_anomaly_detection">>
    ELSE IF Contains(use_case, <<"T","h","r","e","a","t"," ","D","e","t","e","c","t","i","o","n">>)
    THEN <<"show_threat_detection">>
    ELSE IF Contains(use_case, <<"V","u","l","n","e","r","a","b","i","l","i","t","y"," ","P","r","i","o","r","i","t","i","z","a","t","i","o","n">>)
    THEN <<"show_vulnerability_prioritization">>
    ELSE IF Contains(use_case, <<"G","R","C"," ","&"," ","C","o","m","p","l","i","a","n","c","e">>)
    THEN <<"show_grc_compliance">>
    ELSE IF Contains(use_case, <<"A","I"," ","A","l","e","r","t"," ","T","r","i","a","g","e">>)
    THEN <<"show_ai_alert_triage">>
    ELSE <<>>

\* The header each panel starts with.
PanelHeader(panel) ==
    CASE panel = "show_anomaly_detection" -> "Use Case 1: AI-Powered Anomaly Detection"
      [] panel = "show_threat_detection" -> "Use Case 2: Threat Detection & Incident Response"
      [] panel = "show_vulnerability_prioritization" ->
           "Use Case 3: AI-Powered Vulnerability Prioritization"
      [] panel = "show_grc_compliance" -> "Use Case 4: Automated GRC & Compliance"
      [] panel = "show_ai_alert_triage" -> "Use Case 5: AI-Powered Alert Triage"

\* The keys of demo_sections, in their order.
SectionLabels ==
    LET SectionDashboard ==
            <<"(house)"," ","E","x","e","c","u","t","i","v","e"," ","D","a","s","h","b","o","a",
              "r","d">>
        SectionAnomaly ==
            <<"(magnifier)"," ","A","n","o","m","a","l","y"," ","D","e","t","e","c","t","i","o",
              "n">>
        SectionThreats ==
            <<"(warning)"," ","T","h","r","e","a","t"," ","P","r","i","o","r","i","t","i","z",
              "a","t","i","o","n">>
        SectionVulnerabilities ==
            <<"(lock)"," ","V","u","l","n","e","r","a","b","i","l","i","t","y"," ","M","a","n",
              "a","g","e","m","e","n","t">>
        SectionFraud ==
            <<"(money)"," ","F","r","a","u","d"," ","D","e","t","e","c","t","i","o","n">>
        SectionInsider ==
            <<"(detective)"," ","I","n","s","i","d","e","r"," ","T","h","r","e","a","t"," ","D",
              "e","t","e","c","t","i","o","n">>
        SectionHunting ==
            <<"(lens)"," ","T","h","r","e","a","t"," ","H","u","n","t","i","n","g">>
        SectionChatbot ==
            <<"(robot)"," ","S","e","c","u","r","i","t","y"," ","C","h","a","t","b","o","t">>
        SectionPerformance ==
            <<"(chart)"," ","C","o","s","t"," ","&"," ","P","e","r","f","o","r","m","a","n","c",
              "e">>
    IN  <<SectionDashboard, SectionAnomaly, SectionThreats, SectionVulnerabilities, SectionFraud,
          SectionInsider, SectionHunting, SectionChatbot, SectionPerformance>>

\* demo_sections[selected_section].
demo_sections(selected_section) ==
    CASE selected_section = SectionLabels[1] -> "dashboard"
      [] selected_section = SectionLabels[2] -> "anomaly"
      [] selected_section = SectionLabels[3] -> "threats"
      [] selected_section = SectionLabels[4] -> "vulnerabilities"
      [] selected_section = SectionLabels[5] -> "fraud"
      [] selected_section = SectionLabels[6] -> "insider"
      [] selected_section = SectionLabels[7] -> "hunting"
      [] selected_section = SectionLabels[8] -> "chatbot"
      [] selected_section = SectionLabels[9] -> "performance"

\* The if/elif chain over current_section: the section it runs.
section_dispatch(current_section) ==
    IF current_section = "dashboard"
    THEN <<"dashboard">>
    ELSE IF current_section = "anomaly"
    THEN <<"anomaly">>
    ELSE IF current_section = "threats"
    THEN <<"threats">>
    ELSE IF current_section = "vulnerabilities"
    THEN <<"vulnerabilities">>
    ELSE IF current_section = "fraud"
    THEN <<"fraud">>
    ELSE IF current_section = "insider"
    THEN <<"insider">>
    ELSE IF current_section = "hunting"
    THEN <<"hunting">>
    ELSE IF current_section = "chatbot"
    THEN <<"chatbot">>
    ELSE IF current_section = "performance"
    THEN <<"performance">>
    ELSE <<>>

\* The title each section starts with.
SectionTitle(current_section) ==
    CASE current_section = "dashboard" -> "Executive Security Dashboard"
      [] current_section = "anomaly" -> "AI-Powered Anomaly Detection"
      [] current_section = "threats" -> "AI-Driven Threat Prioritization"
      [] current_section = "vulnerabilities" -> "AI-Enhanced Vulnerability Management"
      [] current_section = "fraud" -> "Machine Learning Fraud Detection"
      [] current_section = "insider" -> "Insider Threat Detection"
      [] current_section = "hunting" -> "Threat Hunting & Investigation"
      [] current_section = "chatbot" -> "Security Chatbot"
      [] current_section = "performance" -> "Cost & Performance Analytics"

(***************************************************************************)
(* get_threat_data and show_threat_detection of the two dashboard apps.    *)
(* Scores are kept in hundredths.                                          *)
(***************************************************************************)
ThreatColumns ==
    <<"EVENT_TYPE", "TIMESTAMP", "PRIMARY_ASSET", "SECONDARY_ASSET", "THREAT_CATEGORY",
      "CONFIDENCE_SCORE", "RELATED_EVENTS", "COMPOUND_THREAT_SCORE",
      "CAMPAIGN_CLASSIFICATION">>

\* The rows of the sample tables, in the order of the longer one.
ThreatRows ==
    LET ThreatRowC2 ==
            <<JStr("NETWORK_THREAT"), JStr("2024-01-24 14:30:15"), JStr("10.2.1.15"),
              JStr("203.0.113.50"), JStr("c2_communication"), JNum(95), JNum(3), JNum(125),
              JStr("ADVANCED_PERSISTENT_THREAT")>>
        ThreatRowLogin ==
            <<JStr("USER_ANOMALY"), JStr("2024-01-21 02:30:15"), JStr("john.smith"),
              JStr("203.0.113.25"), JStr("USER_COMPROMISE"), JNum(85), JNum(2), JNum(105),
              JStr("USER_COMPROMISE_CAMPAIGN")>>
        ThreatRowCode ==
            <<JStr("CODE_THREAT"), JStr("2024-01-21 02:45:30"), JStr("john.smith"),
              JStr("company/core-payment-system"), JStr("CODE_MANIPULATION"), JNum(75), JNum(2),
              JNum(95), JStr("USER_COMPROMISE_CAMPAIGN")>>
        ThreatRowScan ==
            <<JStr("NETWORK_THREAT"), JStr("2024-01-23 08:45:22"), JStr("45.33.32.156"),
              JStr("10.1.1.10"), JStr("port_scan"), JNum(78), JNum(0), JNum(78),
              JStr("ISOLATED_INCIDENT")>>
        ThreatRowCoordinated ==
            <<JStr("USER_ANOMALY"), JStr("2024-01-24 14:22:10"), JStr("sarah.chen"),
              JStr("203.0.113.50"), JStr("USER_COMPROMISE"), JNum(85), JNum(1), JNum(95),
              JStr("COORDINATED_ATTACK")>>
    IN  <<ThreatRowC2, ThreatRowLogin, ThreatRowCode, ThreatRowScan,
          ThreatRowCoordinated>>

\* The sample table each app's get_threat_data falls back to.
ThreatSample(a) ==
    IF a = "streamlit_app"
    THEN Frame(ThreatColumns, <<ThreatRows[1], ThreatRows[2], ThreatRows[3]>>)
    ELSE Frame(ThreatColumns,
               <<ThreatRows[1], ThreatRows[2], ThreatRows[3], ThreatRows[4],
                 ThreatRows[5]>>)

\* What session.sql(query).to_pandas() can do: raise, or return the view
\* COMPREHENSIVE_THREAT_ANALYSIS, whose columns carry the names of the SELECT
\* list: with a campaign of the class ADVANCED_PERSISTENT_THREAT, with none,
\* or with no row.
ThreatOutcomes ==
    {[kind |-> "SnowparkSQLException", frame |-> NoFrame],
     [kind |-> "frame", frame |-> Frame(ThreatColumns, <<ThreatRows[1], ThreatRows[4]>>)],
     [kind |-> "frame", frame |-> Frame(ThreatColumns, <<ThreatRows[4], ThreatRows[2]>>)],
     [kind |-> "frame", frame |-> Frame(ThreatColumns, <<>>)]}

\* The body of get_threat_data.
get_threat_data_body(a, e) ==
    IF e.kind = "frame"
    THEN [value |-> e.frame, elements |-> <<>>]
    ELSE [value |-> ThreatSample(a),
          elements |-> <<El("st.error", Text("Error loading threat data: ", e.kind))>>]

\* @st.cache_data(ttl=300) around it, each app with an entry of its own.
get_threat_data(a, e, cache) ==
    LET key == <<a, "get_threat_data">>
    IN  IF key \in DOMAIN cache
        THEN [value |-> cache[key].value, elements |-> cache[key].elements,
              calls |-> <<>>, cache |-> cache]
        ELSE LET got == get_threat_data_body(a, e)
             IN  [value |-> got.value, elements |-> got.elements,
                  calls |-> <<[text |-> key]>>,
                  cache |-> (key :> got) @@ cache]

\* df[name].sum()
RECURSIVE Sum(_, _)
Sum(rows, name) == IF Len(rows) = 0 THEN 0 ELSE Head(rows).v[name].v + Sum(Tail(rows), name)

Metric(label, value) == El("st.metric", [label |-> label, value |-> value])
\* One step of a panel that reads df[name] for each of the names: the
\* elements `out` when the frame has a column of exactly each name, the
\* exception `exc` otherwise.
Reading(df, names, exc, out) ==
    IF \A i \in 1..Len(names) : InSeq(names[i], df.columns)
    THEN Shown(out)
    ELSE Crashed(<<>>, exc)

\* The alert drawn for the first campaign of the class.
AptAlert(row, asset, score, events, confidence) ==
    El("st.markdown",
       [alert |-> "APT Campaign Detected", primary_asset |-> row.v[asset],
        threat_score |-> row.v[score], related_events |-> row.v[events],
        confidence |-> row.v[confidence]])

\* show_threat_detection of src/streamlit_app.py, after its loader returned.
show_threat_detection_app(df) ==
    Then(Shown(<<El("st.markdown", JStr(PanelHeader("show_threat_detection"))),
                 El("st.markdown", JStr("Business Value"))>>),
    Then(IF ~IsEmptyFrame(df)
         THEN Reading(df, <<"CAMPAIGN_CLASSIFICATION">>, "KeyError",
                <<Metric("Active Campaigns",
                         Len(SelectSeq(df.rows, LAMBDA r : r.v["CAMPAIGN_CLASSIFICATION"] # JStr("ISOLATED_INCIDENT"))))>>)
         ELSE Shown(<<Metric("Active Campaigns", 0)>>),
    Then(IF ~IsEmptyFrame(df)
         THEN Reading(df, <<"CONFIDENCE_SCORE">>, "KeyError",
                <<Metric("High Confidence Threats",
                         Len(SelectSeq(df.rows, LAMBDA r : r.v["CONFIDENCE_SCORE"].v > 90)))>>)
         ELSE Shown(<<Metric("High Confidence Threats", 0)>>),
    Then(IF ~IsEmptyFrame(df)
         THEN Reading(df, <<"RELATED_EVENTS">>, "KeyError",
                <<Metric("Correlated Events", Sum(df.rows, "RELATED_EVENTS"))>>)
         ELSE Shown(<<Metric("Correlated Events", 0)>>),
    Then(Shown(<<El("st.metric", JStr("Avg Response Time"))>>),
         IF IsEmptyFrame(df)
         THEN Shown(<<>>)
         ELSE
    Then(Reading(df, <<"TIMESTAMP", "COMPOUND_THREAT_SCORE", "CAMPAIGN_CLASSIFICATION",
                       "RELATED_EVENTS", "PRIMARY_ASSET", "THREAT_CATEGORY">>, "ValueError",
                 <<El("st.plotly_chart", JStr("Correlated Threat Events Timeline"))>>),
    Then(Reading(df, <<"CAMPAIGN_CLASSIFICATION">>, "KeyError", <<>>),
         LET apt_threats == SelectSeq(df.rows, LAMBDA r : r.v["CAMPAIGN_CLASSIFICATION"] = JStr("ADVANCED_PERSISTENT_THREAT"))
         IN  IF Len(apt_threats) = 0
             THEN Shown(<<>>)
             ELSE Reading(df, <<"PRIMARY_ASSET", "COMPOUND_THREAT_SCORE", "RELATED_EVENTS",
                                "CONFIDENCE_SCORE">>, "KeyError",
                          <<AptAlert(apt_threats[1], "PRIMARY_ASSET", "COMPOUND_THREAT_SCORE",
                                     "RELATED_EVENTS", "CONFIDENCE_SCORE")>>))))))))

\* show_threat_detection of src/streamlit/cybersecurity_ai_demo.py.
show_threat_detection_demo(df) ==
    Then(Shown(<<El("st.markdown", JStr(PanelHeader("show_threat_detection"))),
                 El("st.markdown", JStr("Business Value"))>>),
    Then(Reading(df, <<"campaign_classification">>, "KeyError",
           <<Metric("Active Campaigns",
                    Len(SelectSeq(df.rows, LAMBDA r : r.v["campaign_classification"] # JStr("ISOLATED_INCIDENT"))))>>),
    Then(Reading(df, <<"confidence_score">>, "KeyError",
           <<Metric("High Confidence Threats", Len(SelectSeq(df.rows, LAMBDA r : r.v["confidence_score"].v > 90)))>>),
    Then(Reading(df, <<"related_events">>, "KeyError",
           <<Metric("Correlated Events", Sum(df.rows, "related_events"))>>),
    Then(Shown(<<El("st.metric", JStr("Avg Response Time")),
                 El("st.tabs", JStr("Threat Correlation")),
                 El("st.subheader", JStr("Multi-Source Threat Correlation"))>>),
    Then(Reading(df, <<"timestamp", "compound_threat_score", "campaign_classification",
                       "related_events", "primary_asset", "threat_category">>, "ValueError",
                 <<El("st.plotly_chart", JStr("Correlated Threat Events Timeline")),
                   El("st.subheader", JStr("Advanced Persistent Threat (APT) Detection"))>>),
    Then(Reading(df, <<"campaign_classification">>, "KeyError", <<>>),
    Then(LET apt_threats == SelectSeq(df.rows, LAMBDA r : r.v["campaign_classification"] = JStr("ADVANCED_PERSISTENT_THREAT"))
         IN  IF Len(apt_threats) = 0
             THEN Crashed(<<>>, "IndexError")
             ELSE Reading(df, <<"primary_asset", "compound_threat_score", "related_events",
                                "confidence_score">>, "KeyError",
                          <<AptAlert(apt_threats[1], "primary_asset", "compound_threat_score",
                                     "related_events", "confidence_score")>>),
    Then(Shown(<<El("st.subheader", JStr("Compromised Developer Detection")),
                 El("st.markdown", JStr("Real-time Developer Risk Assessment:")),
                 El("st.markdown", JStr("john.smith")),
                 El("st.markdown", JStr("alex.turner")),
                 El("st.subheader", JStr("Campaign Analysis"))>>),
         Reading(df, <<"campaign_classification">>, "KeyError",
                 <<El("st.plotly_chart", JStr("Threat Campaign Classification")),
                   El("st.markdown", JStr("Complex Threat Hunting Query:")),
                   El("st.code", JStr("SELECT"))>>))))))))))

\* What main() draws before it calls a panel: the header, and in the sidebar
\* the selectbox, the connection status and the period.

\* One script run of a dashboard app with the option use_case selected.  In
\* cybersecurity_ai_demo.py the run may be the one started by the Refresh
\* Data button, which clears the cache before the panel is called.
main(a, use_case, refresh, e) ==
    LET MainHeader ==
            <<El("st.markdown", JStr("Snowflake Cybersecurity AI/ML Demo")),
              El("st.markdown", JStr("Showcasing AI-Powered Security Analytics in the Data Cloud")),
              El("st.title", JStr("Security Data Cloud")),
              El("st.selectbox", Chars(use_case)),
              El("st.success", JStr("Connected to Snowflake")),
              El("st.selectbox", JStr("Analysis Period"))>>
    IN  LET cache == IF refresh THEN <<>> ELSE query_cache
            called == main_dispatch(use_case)
            threat == called = <<"show_threat_detection">>
            got == get_threat_data(a, e, cache)
            \* the loader is called after the panel's header and callout
            panel == IF threat
                     THEN LET shown == IF a = "streamlit_app"
                                   THEN show_threat_detection_app(got.value)
                                   ELSE show_threat_detection_demo(got.value)
                          IN  [out |-> SubSeq(shown.out, 1, 2) \o got.elements
                                         \o SubSeq(shown.out, 3, Len(shown.out)),
                               exc |-> shown.exc]
                     ELSE IF Len(called) = 0 THEN Shown(<<>>)
                     ELSE Shown(<<El("st.markdown", JStr(PanelHeader(called[1])))>>)
        IN  /\ section' = "main"
            /\ app' = a
            /\ question' = use_case
            /\ panels' = called
            /\ env' = IF threat THEN e ELSE NoCall
            /\ search_results' = IF threat THEN got.value ELSE NoFrame
            /\ sqlCalls' = IF threat THEN got.calls ELSE <<>>
            /\ query_cache' = IF threat THEN got.cache ELSE cache
            /\ rendered' = MainHeader
                             \o (IF refresh THEN <<El("st.success", JStr("Data refreshed!"))>>
                                 ELSE <<>>)
                             \o panel.out
            /\ raised' = panel.exc
            /\ context' = "general"
            /\ response' = NoValue
            /\ reply' = NoValue
            /\ UNCHANGED chatVars

\* The user selects a use case in one of the dashboard apps.
SelectUseCase ==
    \E a \in {"streamlit_app", "cybersecurity_ai_demo"}, i \in 1..Len(UseCases) :
        \E e \in IF main_dispatch(UseCases[i]) = <<"show_threat_detection">>
                 THEN ThreatOutcomes ELSE {NoCall} :
            main(a, UseCases[i], FALSE, e)

\* The user presses Refresh Data in cybersecurity_ai_demo.py.
RefreshData ==
    \E i \in 1..Len(UseCases) :
        \E e \in IF main_dispatch(UseCases[i]) = <<"show_threat_detection">>
                 THEN ThreatOutcomes ELSE {NoCall} :
            main("cybersecurity_ai_demo", UseCases[i], TRUE, e)

\* The user selects a section in the demo app.
SelectDemoSection ==
    \E i \in 1..Len(SectionLabels) :
        LET selected_section == SectionLabels[i]
            current_section == demo_sections(selected_section)
            called == section_dispatch(current_section)
        IN  /\ section' = "main"
            /\ app' = "streamlit_cybersecurity_demo"
            /\ question' = selected_section
            /\ panels' = called
            /\ rendered' = <<El("st.sidebar.title", JStr("Cybersecurity Demo")),
                             El("st.sidebar.markdown", JStr("Snowflake AI/ML Platform")),
                             El("st.sidebar.selectbox", Chars(selected_section)),
                             El("st.sidebar.info", JStr("Database: CYBERSECURITY_DEMO"))>>
                            \o [k \in 1..Len(called) |->
                                  El("st.title", JStr(SectionTitle(called[k])))]
            /\ raised' = NoException
            /\ env' = NoCall
            /\ search_results' = NoFrame
            /\ sqlCalls' = <<>>
            /\ context' = "general"
            /\ response' = NoValue
            /\ reply' = NoValue
            /\ UNCHANGED <<query_cache, chatVars>>

NextNav == SelectUseCase \/ RefreshData \/ SelectDemoSection \/ CacheExpire

SpecNav == Init /\ [][NextNav]_vars

(***************************************************************************)
(* Properties of query_cortex_analyst and display_cortex_results.          *)
(***************************************************************************)
\* The last script run called query_cortex_analyst and the call returned.
Resolved == section = "analyst" /\ response # NoValue

\* The collaborator's behaviours, as the specification names them.
NotConfigured == section = "analyst" /\ env.kind = "NameError"
RemoteError == section = "analyst" /\ env.kind = "SnowparkSQLException"
EmptyAnswer == section = "analyst" /\ env.kind = "rows" /\ Len(env.rows) = 0
Answered == section = "analyst" /\ env.kind = "rows" /\ Len(env.rows) > 0
Payload == env.rows[1].ANALYST_RESPONSE
MalformedAnswer ==
    /\ Answered
    /\ \/ Payload.t = "null"
       \/ Payload.t = "str" /\ "json" \notin DOMAIN Payload
       \/ Payload.t = "str" /\ "json" \in DOMAIN Payload /\ Payload.json.t # "obj"

ErrorShown == \E i \in 1..Len(rendered) : rendered[i].el = "st.error"
QueryFailed(cause) ==
    [success |-> FALSE,
     error |-> [prefix |-> "Cortex Analyst query failed: ", cause |-> cause]]

\* C1: every Response is either a success with rows (a list of records) and
\* no error, or a failure with an error and no rows; never anything between.
C1_ExactlyOne ==
    Resolved =>
        \/ /\ response.success
           /\ "results" \in DOMAIN response
           /\ response.results.t = "list"
           /\ "error" \notin DOMAIN response
        \/ /\ ~response.success
           /\ "error" \in DOMAIN response
           /\ "results" \notin DOMAIN response

\* C2: whatever the session does (no session, a raising call, no rows, text
\* that is no JSON, a document that is no object), query_cortex_analyst
\* returns a dict: a success with all its keys or a failure with its error.
C2_AlwaysReturns ==
    section = "analyst" =>
        /\ response # NoValue
        /\ \/ /\ response.success
              /\ DOMAIN response = {"success", "sql_query", "results", "explanation",
                                    "visualizations", "raw_response"}
           \/ /\ ~response.success
              /\ DOMAIN response = {"success", "error"}
C2_Witness ==
    /\ Answered /\ Payload.t = "str" /\ "json" \notin DOMAIN Payload
    /\ response = QueryFailed("JSONDecodeError")

\* C3 as stated: a failure of the remote analyst is never shown to the end
\* user as an error.
C3_RemoteFailureHidden == (NotConfigured \/ RemoteError) => ~ErrorShown
\* C3 amended: a failure of the remote analyst is returned as success=false
\* with the error 'Cortex Analyst query failed: <cause>', that error is the
\* one thing display_cortex_results shows, and no other query is run.
C3_RemoteFailureShown ==
    (NotConfigured \/ RemoteError) =>
        /\ response = QueryFailed(env.kind)
        /\ rendered = <<[el |-> "st.error", arg |-> response.error]>>
        /\ \A i \in 1..Len(sqlCalls) : sqlCalls[i].query = AnalystQuery
C3_Witness == RemoteError /\ ErrorShown /\ Len(sqlCalls) = 1

\* The routes that the specification's fallback catalog has an entry for.
CatalogRoutes == {"incidents", "users", "threats", "vulnerabilities"}

\* C4 as stated: with no remote analyst configured, a question of a route
\* with a catalog entry gets a successful Response.
C4_FallbackSucceeds == (NotConfigured /\ context \in CatalogRoutes) => response.success
\* C4 amended: with no remote analyst configured, every question of such a
\* route gets success=false with the error 'Cortex Analyst query failed:
\* <cause>'; the Response has no rows and no chart hint, and no catalog query
\* reaches the backend.
C4_NotConfiguredFails ==
    (NotConfigured /\ context \in CatalogRoutes) =>
        /\ ~response.success
        /\ DOMAIN response = {"success", "error"}
        /\ response.error.prefix = "Cortex Analyst query failed: "
        /\ sqlCalls = <<>>
C4_Witness == NotConfigured /\ context = "vulnerabilities" /\ ~response.success

\* The shape of a Response: its keys, its flag, and the form of its error.
Shape(r) ==
    [keys |-> DOMAIN r, success |-> r.success,
     error |-> IF "error" \in DOMAIN r THEN r.error.prefix ELSE ""]

\* C5 as stated: a users question whose analyst call fails still gets a
\* successful Response.
C5_FailureStillSucceeds == (RemoteError /\ context = "users") => response.success
\* C5 amended: a users question whose analyst call fails gets a Response of
\* the same shape as with no analyst configured, and both are failures:
\* success=false and an error, no rows, no query text, no explanation.
C5_SameShapeAsNotConfigured ==
    (RemoteError /\ context = "users") =>
        /\ ~response.success
        /\ Shape(response)
             = Shape(query_cortex_analyst(question, context,
                                          [kind |-> "NameError", rows |-> <<>>]).val)
C5_Witness == RemoteError /\ context = "users" /\ question = QuickActions[2].question /\ ErrorShown

\* C6: one call of query_cortex_analyst sends at most one statement through
\* the session, the analyst statement; nothing is sent a second time, also
\* when the analyst's answer carries a SQL text.
C6_AtMostOneCall ==
    /\ Len(sqlCalls) <= 1
    /\ \A i \in 1..Len(sqlCalls) : sqlCalls[i].query = AnalystQuery
C6_Witness ==
    /\ Resolved /\ response.success /\ Truthy(response.sql_query)
    /\ Len(sqlCalls) = 1

\* C7 as stated: with no remote analyst configured, "hello" on the general
\* route gets success=false with the reason NoFallbackForRoute, and no query
\* is sent.
C7_NoFallbackForRoute ==
    (NotConfigured /\ question = QHello /\ context = "general") =>
        /\ ~response.success
        /\ response.error.cause = "NoFallbackForRoute"
        /\ sqlCalls = <<>>
\* C7 amended: with no remote analyst configured, "hello" on the general
\* route gets success=false with the error 'Cortex Analyst query failed:
\* <cause>' naming the missing session, the same error as on every other
\* route and without a list of topics; no query is sent.
C7_GeneralRouteFails ==
    (NotConfigured /\ question = QHello /\ context = "general") =>
        /\ response = QueryFailed("NameError")
        /\ response
             = query_cortex_analyst(QUsersLogin, "users",
                                    [kind |-> "NameError", rows |-> <<>>]).val
        /\ sqlCalls = <<>>
C7_Witness ==
    NotConfigured /\ question = QHello /\ context = "general" /\ ErrorShown

\* C10 as stated: an answer that is empty or malformed causes no error that
\* the caller sees.
C10_BadContentHidden ==
    (EmptyAnswer \/ MalformedAnswer) => (response.success /\ ~ErrorShown)
\* C10 amended: an answer with no rows gets success=false with 'No response
\* from Cortex Analyst'; an answer that is no JSON object (text that does not
\* parse, null, a document that is a list or a string) gets success=false
\* with 'Cortex Analyst query failed: <cause>', the error form of an
\* unavailable analyst; either error is shown and no other query is run.  An
\* object with an empty SQL statement is a success with sql_query ''.
C10_BadContentFails ==
    /\ EmptyAnswer =>
         response = [success |-> FALSE,
                     error |-> [prefix |-> "No response from Cortex Analyst",
                                cause |-> ""]]
    /\ MalformedAnswer =>
         response \in {QueryFailed("JSONDecodeError"), QueryFailed("AttributeError")}
    /\ (EmptyAnswer \/ MalformedAnswer) =>
         /\ rendered = <<[el |-> "st.error", arg |-> response.error]>>
         /\ Len(sqlCalls) = 1
    /\ (Answered /\ Payload = JsonText(ObjEmptySql)) =>
         /\ response.success
         /\ response.sql_query = JStr("")
         /\ ~ErrorShown
C10_Witness == EmptyAnswer /\ ErrorShown /\ response.error.cause = ""

\* The one statement of the run could not be executed by the backend.
StatementFailed == RemoteError /\ Len(sqlCalls) > 0

AnsweredObject ==
    /\ Answered
    /\ \/ Payload.t = "obj"
       \/ Payload.t = "str" /\ "json" \in DOMAIN Payload /\ Payload.json.t = "obj"
Answer == IF Payload.t = "obj" THEN Payload ELSE Payload.json
AnsweredWithSql ==
    AnsweredObject /\ "sql" \in DOMAIN Answer.v /\ Truthy(Answer.v["sql"])

\* C12 as stated: when the analyst answers with a SQL statement, the Response
\* carries that statement and its rows come from executing that statement
\* against the backend during the same call.
C12_RowsFromExecutingSql ==
    AnsweredWithSql =>
        /\ response.sql_query = Answer.v["sql"]
        /\ \E i \in 1..Len(sqlCalls) : sqlCalls[i].query = response.sql_query.v
\* C12 amended: when the analyst answers with a SQL statement, the Response
\* carries that statement as sql_query and, as results, the value of the
\* answer's own `results` key ([] when the key is absent); the statement is
\* never executed, the one statement sent is the analyst statement; a
\* `suggestions` key of the answer contributes nothing to results.
C12_RowsFromAnswer ==
    /\ AnsweredWithSql =>
         /\ response.success
         /\ response.sql_query = Answer.v["sql"]
         /\ response.results = DictGet(Answer, "results", JList(<<>>))
         /\ sqlCalls = <<[query |-> AnalystQuery, context |-> context]>>
    /\ (AnsweredObject /\ "suggestions" \in DOMAIN Answer.v) =>
         /\ response.results = DictGet(Answer, "results", JList(<<>>))
         /\ response.results # Answer.v["suggestions"]
C12_Witness ==
    /\ AnsweredWithSql /\ Answer = ObjSqlSuggestions
    /\ response.results = JList(RowsNames)
    /\ Len(sqlCalls) = 1

\* What the call returns for the same question and context when the session
\* behaves as e.
ResponseUnder(e) == query_cortex_analyst(question, context, e).val
AbsentAnalyst == [kind |-> "NameError", rows |-> <<>>]
FailingAnalyst == [kind |-> "SnowparkSQLException", rows |-> <<>>]

\* C13 as stated: with the analyst absent the Response is the same as with an
\* analyst that returns an error, and in both cases nothing of it is shown.
C13_AbsentSameAsError ==
    (NotConfigured \/ RemoteError) =>
        /\ ResponseUnder(AbsentAnalyst) = ResponseUnder(FailingAnalyst)
        /\ ~ErrorShown
\* C13 amended: for every question and context, the Response with the
\* analyst absent and the Response with an analyst that returns an error are
\* failures of the same form, success=false with 'Cortex Analyst query
\* failed: <cause>', that differ in the cause they name; each is shown to the
\* user with st.error, and no fallback query is run.
C13_AbsentSameShapeAsError ==
    (NotConfigured \/ RemoteError) =>
        /\ response = ResponseUnder(env)
        /\ Shape(ResponseUnder(AbsentAnalyst)) = Shape(ResponseUnder(FailingAnalyst))
        /\ Shape(response) = Shape(QueryFailed(""))
        /\ ResponseUnder(AbsentAnalyst).error.cause = "NameError"
        /\ ResponseUnder(FailingAnalyst).error.cause = "SnowparkSQLException"
        /\ rendered = <<El("st.error", response.error)>>
        /\ \A i \in 1..Len(sqlCalls) : sqlCalls[i].query = AnalystQuery
C13_Witness ==
    /\ NotConfigured /\ context = "threats" /\ ErrorShown
    /\ response.error.cause = "NameError"

\* C17: for every Response query_cortex_analyst can return (a failure, a
\* success with empty results, with results that are no list of records,
\* with any entries in visualizations), display_cortex_results runs to its
\* end and raises nothing.
C17_RenderingNeverRaises == Resolved => raised = NoException

(***************************************************************************)
(* Properties of the display functions as the renderer of rows under a     *)
(* chart type.                                                             *)
(***************************************************************************)
RenderedViz == section = "display_visualization"
RenderedAuto == section = "display_auto_visualizations"
RenderedResults == section = "display_cortex_results"

\* The rows and the chart type the display functions were given.
VizConfig == response.visualizations.v[1]
GivenRows == response.results.v
Hint == IF "type" \in DOMAIN VizConfig.v THEN VizConfig.v["type"].v ELSE "table"
NumColumns == IF Len(GivenRows) = 0 THEN 0 ELSE Len(GivenRows[1].keys)

HasEl(names) == \E i \in 1..Len(rendered) : rendered[i].el \in names
ChartDrawn ==
    HasEl({"st.bar_chart", "st.line_chart", "st.area_chart", "st.scatter_chart",
           "st.plotly_chart"})
TableDrawn == HasEl({"st.dataframe"})
EmptyStateShown == HasEl({"st.info", "st.warning", "st.write", "st.error"})

\* C14 as stated: empty rows give the empty-state message; else bar or line
\* with at least 2 columns gives that chart, pie with at least 2 columns a
\* pie, heatmap with at least 3 columns a heatmap; in every other case a plain
\* table; never an exception.
C14_SpecDecisionRule ==
    RenderedViz =>
        /\ raised = NoException
        /\ IF Len(GivenRows) = 0
           THEN EmptyStateShown /\ ~ChartDrawn /\ ~TableDrawn
           ELSE IF Hint \in {"bar", "bar_chart"} /\ NumColumns >= 2
           THEN HasEl({"st.bar_chart"})
           ELSE IF Hint \in {"line", "line_chart"} /\ NumColumns >= 2
           THEN HasEl({"st.line_chart"})
           ELSE IF Hint = "pie" /\ NumColumns >= 2
           THEN ChartDrawn /\ ~TableDrawn
           ELSE IF Hint = "heatmap" /\ NumColumns >= 3
           THEN ChartDrawn /\ ~TableDrawn
           ELSE TableDrawn /\ ~ChartDrawn
\* C14 amended: for every rows and type, display_visualization shows the
\* title and then one element over all the rows: the chart of that type for
\* bar_chart, line_chart, area_chart and scatter_chart, and a plain table in
\* every other case (pie, heatmap, table, bar, line, an unknown or a missing
\* type).  Neither the number of rows nor the number of columns is looked
\* at: empty rows give that same chart or table and no empty-state message.
\* It never raises for rows that are a list of records.
C14_CodeDecisionRule ==
    RenderedViz =>
        /\ raised = NoException
        /\ Len(rendered) = 2
        /\ rendered[1].el = "st.markdown"
        /\ rendered[2].arg = JList(GivenRows)
        /\ Hint = "bar_chart" => rendered[2].el = "st.bar_chart"
        /\ Hint = "line_chart" => rendered[2].el = "st.line_chart"
        /\ Hint = "area_chart" => rendered[2].el = "st.area_chart"
        /\ Hint = "scatter_chart" => rendered[2].el = "st.scatter_chart"
        /\ Hint \notin {"bar_chart", "line_chart", "area_chart", "scatter_chart"} =>
             rendered[2].el = "st.dataframe"
        /\ ~EmptyStateShown
\* A bar chart drawn over rows of one column, which the stated rule would
\* show as a table.
C14_Witness ==
    /\ RenderedViz /\ Hint = "bar_chart" /\ NumColumns = 1
    /\ rendered[2] = El("st.bar_chart", JList(GivenRows))

\* C15: rows that are not empty and have 3 columns, with the type pie, are
\* shown as a plain table of all the rows, and nothing is raised.
C15_PieThreeColumnsIsTable ==
    (RenderedViz /\ Hint = "pie" /\ Len(GivenRows) > 0 /\ NumColumns = 3) =>
        /\ raised = NoException
        /\ TableDrawn /\ ~ChartDrawn
        /\ \E i \in 1..Len(rendered) : rendered[i] = El("st.dataframe", JList(GivenRows))
C15_Witness ==
    /\ RenderedViz /\ Hint = "pie" /\ GivenRows = RowsByCountry
    /\ TableDrawn /\ raised = NoException

\* C16 as stated: for every chart type, empty rows give an explicit 'no
\* data' message, never a chart and never a table.
C16_EmptyStateForEmptyRows ==
    (section # "init" /\ Len(GivenRows) = 0) =>
        EmptyStateShown /\ ~ChartDrawn /\ ~TableDrawn
\* C16 amended: for every chart type, empty rows give no message at all.
\* display_auto_visualizations returns without emitting anything;
\* display_cortex_results leaves the whole results part out (no heading, no
\* table, no chart of the results) and shows only what its other parts emit;
\* display_visualization draws its chart or table over the empty data.
C16_NothingForEmptyRows ==
    (section # "init" /\ Len(GivenRows) = 0) =>
        /\ raised = NoException
        /\ ~EmptyStateShown
        /\ RenderedAuto => rendered = <<>>
        /\ RenderedViz =>
             /\ Len(rendered) = 2
             /\ rendered[2].arg = JList(<<>>)
             /\ ChartDrawn \/ TableDrawn
        /\ RenderedResults =>
             /\ Len(rendered) = 3
             /\ rendered[1] = El("st.markdown", JStr("Visualizations"))
             /\ rendered[3].arg = JList(<<>>)
             /\ ~HasEl({"st.metric"})
C16_Witness ==
    /\ RenderedResults /\ Len(GivenRows) = 0 /\ Hint = "bar_chart"
    /\ rendered[3] = El("st.bar_chart", JList(<<>>))

\* The parts of a rendering by display_cortex_results.
SqlPanelShown == \E i \in 1..Len(rendered) : rendered[i] = El("st.code", response.sql_query)
ResultsTableShown ==
    \E i \in 1..(Len(rendered) - 1) :
        /\ rendered[i] = El("st.markdown", JStr("Results"))
        /\ rendered[i + 1] = El("st.dataframe", response.results)

\* C27: display_cortex_results shows, for a Response with success false, the
\* error message and nothing else; for a successful Response it shows the
\* generated SQL exactly when sql_query is non-empty and the results table
\* exactly when results is a non-empty list.
C27_PartsShownIffPresent ==
    Resolved =>
        IF ~response.success
        THEN rendered = <<El("st.error", response.error)>>
        ELSE /\ SqlPanelShown <=> Truthy(response.sql_query)
             /\ ResultsTableShown
                  <=> (response.results.t = "list" /\ Len(response.results.v) > 0)

\* The frame display_auto_visualizations is given, and the three conditions
\* it tests.
GivenFrame == DataFrame(GivenRows)
HasNumeric == Len(GivenRows) > 0 /\ Len(numeric_cols(GivenFrame)) > 0
HasDateAndNumeric == HasNumeric /\ Len(date_cols(GivenFrame)) > 0
HasCategoricalAndNumeric == HasNumeric /\ Len(categorical_cols(GivenFrame)) > 0
OneRowAndNumeric == HasNumeric /\ Len(GivenRows) = 1
Headings == {i \in 1..Len(rendered) : rendered[i].el = "st.markdown"}

\* C26: display_auto_visualizations draws at most one kind of visualization
\* for a table, under one heading, and the kind is the first that applies of:
\* the line chart over time when a column named for a date or time and a
\* numeric column exist; the bar chart when a categorical and a numeric column
\* exist; the metric cards when the table has one row and a numeric column.
\* An empty table, and a table with no numeric column, give nothing.
C26_AtMostOneByPriority ==
    RenderedAuto =>
        /\ Cardinality(Headings) <= 1
        /\ Cardinality({k \in {"st.line_chart", "st.bar_chart", "st.metric"} : HasEl({k})}) <= 1
        /\ HasDateAndNumeric =>
             /\ rendered[1] = El("st.markdown", JStr("Trend Analysis"))
             /\ ~HasEl({"st.bar_chart", "st.metric"})
             /\ raised = NoException =>
                  rendered[2] = El("st.line_chart", JCols(numeric_cols(GivenFrame)))
        /\ (~HasDateAndNumeric /\ HasCategoricalAndNumeric) =>
             /\ rendered[1] = El("st.markdown", JStr("Distribution"))
             /\ Len(rendered) = 2 /\ rendered[2].el = "st.bar_chart"
        /\ (~HasDateAndNumeric /\ ~HasCategoricalAndNumeric /\ OneRowAndNumeric) =>
             /\ rendered[1] = El("st.markdown", JStr("Key Metrics"))
             /\ Len(rendered) = 1 + Len(numeric_cols(GivenFrame))
             /\ \A i \in 2..Len(rendered) : rendered[i].el = "st.metric"
        /\ (~HasDateAndNumeric /\ ~HasCategoricalAndNumeric /\ ~OneRowAndNumeric) =>
             rendered = <<>>
        /\ ~HasNumeric => (rendered = <<>> /\ raised = NoException)
C26_Witness ==
    /\ RenderedAuto /\ GivenRows = RowsTrend
    /\ HasDateAndNumeric /\ HasCategoricalAndNumeric
    /\ Len(rendered) = 2 /\ rendered[2].el = "st.line_chart"

(***************************************************************************)
(* Properties of generate_ai_response as the classifier of questions.      *)
(***************************************************************************)
Replied == reply # NoValue
Has(k) == Contains(Lower(question), k)

\* The route the specification's classifier gives a question: its keyword
\* sets, in its order.
SpecRoute(q) ==
    LET In(k) == Contains(Lower(q), k)
    IN  IF In(<<"i","n","c","i","d","e","n","t">>) \/ In(<<"a","l","e","r","t">>) \/ In(<<"b","r","e","a","c","h">>)
        THEN "incidents"
        ELSE IF In(<<"u","s","e","r">>) \/ In(<<"l","o","g","i","n">>) \/ In(<<"a","u","t","h","e","n","t","i","c","a","t","i","o","n">>)
        THEN "users"
        ELSE IF In(<<"t","h","r","e","a","t">>) \/ In(<<"m","a","l","w","a","r","e">>) \/ In(<<"a","t","t","a","c","k">>)
        THEN "threats"
        ELSE IF In(<<"v","u","l","n">>) \/ In(<<"c","v","e">>) \/ In(<<"p","a","t","c","h">>)
        THEN "vulnerabilities"
        ELSE "general"

\* C8 as stated: the route is chosen by the keyword sets of incidents, users,
\* threats, vulnerabilities in that order, so a question gets the general
\* answer exactly when it has none of those keywords, and "Which users have
\* unusual login patterns?" does not get it.
C8_SpecKeywordOrder ==
    Replied =>
        /\ (reply.topic = "default") <=> (SpecRoute(question) = "general")
        /\ question = QUsersLogin => reply.topic # "default"
        /\ question = QIncidentsMalware => reply.topic = "incidents"

HasIncidents == Has(<<"c","r","i","t","i","c","a","l">>) /\ Has(<<"i","n","c","i","d","e","n","t">>)
HasVulnerabilities ==
    Has(<<"v","u","l","n","e","r","a","b","i","l","i","t">>) /\ (Has(<<"t","o","p">>) \/ Has(<<"p","a","t","c","h">>))
HasInsider == Has(<<"i","n","s","i","d","e","r"," ","t","h","r","e","a","t">>)
HasForeign == Has(<<"r","u","s","s","i","a">>) \/ Has(<<"c","h","i","n","a">>) \/ Has(<<"r","u">>) \/ Has(<<"c","n">>)
HasFraud ==
    Has(<<"t","r","a","n","s","a","c","t","i","o","n">>) /\ (Has(<<"s","u","s","p","i","c","i","o","u","s">>) \/ Has(<<"5","0","0","0">>))
HasNetwork == Has(<<"n","e","t","w","o","r","k">>) /\ (Has(<<"h","o","u","r">>) \/ Has(<<"l","a","s","t">>))

\* C8 amended: the classifier is total and first-match-wins over
\* case-insensitive containment tests in the order: critical and incident;
\* vulnerabilit and (top or patch); insider threat; russia, china, ru or cn;
\* transaction and (suspicious or 5000); network and (hour or last); else the
\* default answer.  "Show me critical incidents and malware" gets incidents;
\* "Which users have unusual login patterns?" gets the default answer.
C8_FirstMatchWins ==
    Replied =>
        /\ reply.topic \in {"incidents", "vulnerabilities", "insider_threat",
                            "foreign_logins", "fraud", "network", "default"}
        /\ HasIncidents => reply.topic = "incidents"
        /\ (~HasIncidents /\ HasVulnerabilities) => reply.topic = "vulnerabilities"
        /\ (~HasIncidents /\ ~HasVulnerabilities /\ HasInsider) =>
             reply.topic = "insider_threat"
        /\ (~HasIncidents /\ ~HasVulnerabilities /\ ~HasInsider /\ HasForeign) =>
             reply.topic = "foreign_logins"
        /\ (~HasIncidents /\ ~HasVulnerabilities /\ ~HasInsider /\ ~HasForeign
            /\ HasFraud) => reply.topic = "fraud"
        /\ (~HasIncidents /\ ~HasVulnerabilities /\ ~HasInsider /\ ~HasForeign
            /\ ~HasFraud /\ HasNetwork) => reply.topic = "network"
        /\ (~HasIncidents /\ ~HasVulnerabilities /\ ~HasInsider /\ ~HasForeign
            /\ ~HasFraud /\ ~HasNetwork) =>
             /\ reply.topic = "default"
             /\ reply.echo = question
        /\ question = QIncidentsMalware => reply.topic = "incidents"
        /\ question = QUsersLogin => reply.topic = "default"
\* A question with the keywords of two branches, answered by the earlier one.
C8_Witness ==
    /\ Replied
    /\ HasInsider /\ HasForeign /\ ~HasIncidents /\ ~HasVulnerabilities
    /\ reply.topic = "insider_threat"

\* The topic of the first test, in the order of the function, that the
\* lower-cased question passes.
FirstMatch ==
    IF HasIncidents THEN "incidents"
    ELSE IF HasVulnerabilities THEN "vulnerabilities"
    ELSE IF HasInsider THEN "insider_threat"
    ELSE IF HasForeign THEN "foreign_logins"
    ELSE IF HasFraud THEN "fraud"
    ELSE IF HasNetwork THEN "network"
    ELSE "default"

\* The topic each sample question of the chatbot section is about.
SampleTopics ==
    <<"incidents", "vulnerabilities", "insider_threat", "foreign_logins", "fraud",
      "network">>

\* C25: generate_ai_response answers every question, with the answer of the
\* first test its lower-cased text passes in the order critical and incident;
\* vulnerabilit and (top or patch); insider threat; russia, china, ru or cn;
\* transaction and (suspicious or 5000); network and (hour or last); and
\* else with the default text that echoes the question and lists the topics.
\* Each of the six sample questions gets the canned answer of its own topic.
C25_SamplesRouted ==
    Replied =>
        /\ reply.topic = FirstMatch
        /\ reply.topic = "default" <=> (reply.echo = question /\ reply.topics = GuidanceTopics)
        /\ reply.topic # "default" => (reply.echo = <<>> /\ reply.text # "")
        /\ \A i \in 1..Len(sample_questions) :
             question = sample_questions[i] => reply.topic = SampleTopics[i]
C25_Witness ==
    /\ Replied /\ question = sample_questions[5]
    /\ reply = Canned("fraud", "Suspicious financial transactions above $5000:")

(***************************************************************************)
(* Properties of run_query under Execute Search.                           *)
(***************************************************************************)
BackendFailed == section = "hunting" /\ env.kind = "SnowparkSQLException"
NoRowsShown ==
    \E i \in 1..Len(rendered) :
        rendered[i] = El("st.info", JStr("No results found for the given query."))

\* C9: when the query is run and the backend fails, the caller handles the
\* outcome as a failure and not as a query that returned no rows, and the
\* query is sent once.
C9_FailureDistinctFromNoRows ==
    BackendFailed =>
        /\ ~NoRowsShown
        /\ Len(sqlCalls) = 1

(***************************************************************************)
(* Properties of the cached functions.                                     *)
(***************************************************************************)
\* What the last call would have returned had its body run.
Uncached ==
    CASE section = "run_query" -> run_query_body(question, env)
      [] section \in {"get_anomaly_data", "refresh"} -> get_anomaly_data_body(env)
      [] OTHER -> [value |-> search_results, elements |-> rendered]

\* C22: the cache is not observable: whatever queries were made before and
\* whatever the backend did then and does now (fails and recovers, changes
\* its data), a call returns what the function would return with no cache.
C22_CacheTransparent == search_results = Uncached.value

(***************************************************************************)
(* Properties of the dashboard apps' loaders, panels and navigation.       *)
(***************************************************************************)
ThreatPanelRun == section = "main" /\ panels = <<"show_threat_detection">>
LoaderFellBack == ThreatPanelRun /\ env.kind = "SnowparkSQLException" /\ Len(sqlCalls) = 1

\* C24: in both dashboard apps a loader whose query raises returns its
\* sample table, and the panel reads only columns and rows that the table it
\* is given has, so that it runs to its end for every outcome of the loader.
C24_PanelCompletes ==
    /\ LoaderFellBack => search_results = ThreatSample(app)
    /\ ThreatPanelRun => raised = NoException

\* The position of the selected option in the menu of its app.
Menu == IF app = "streamlit_cybersecurity_demo" THEN SectionLabels ELSE UseCases
Selected == CHOOSE i \in 1..Len(Menu) : Menu[i] = question
PanelOf ==
    IF app = "streamlit_cybersecurity_demo"
    THEN <<"dashboard", "anomaly", "threats", "vulnerabilities", "fraud", "insider",
           "hunting", "chatbot", "performance">>
    ELSE <<"show_anomaly_detection", "show_threat_detection",
           "show_vulnerability_prioritization", "show_grc_compliance",
           "show_ai_alert_triage">>
Heading(panel) ==
    IF app = "streamlit_cybersecurity_demo"
    THEN El("st.title", JStr(SectionTitle(panel)))
    ELSE El("st.markdown", JStr(PanelHeader(panel)))

\* C28: for every option of the sidebar menu, in each of the three apps, a
\* script run calls exactly one section or panel, the one of that option, and
\* its heading is drawn in the main area; no option leaves it empty.
C28_ExactlyOnePanel ==
    section = "main" =>
        /\ \E i \in 1..Len(Menu) : Menu[i] = question
        /\ panels = <<PanelOf[Selected]>>
        /\ Cardinality({i \in 1..Len(rendered) :
                          \E k \in 1..Len(PanelOf) : rendered[i] = Heading(PanelOf[k])}) = 1
        /\ \E i \in 1..Len(rendered) : rendered[i] = Heading(PanelOf[Selected])
C28_Witness ==
    /\ section = "main" /\ app = "streamlit_app" /\ question = UseCases[4]
    /\ panels = <<"show_grc_compliance">>

(***************************************************************************)
(* Properties of the chatbot section's conversation history.               *)
(***************************************************************************)
IsPrefix(a, b) == Len(a) <= Len(b) /\ SubSeq(b, 1, Len(a)) = a

\* C18 as stated: after any operation every entry that was in the history
\* is still there at its position: each earlier history is a prefix of every
\* later one.
C18_AppendOnly == [][IsPrefix(chat_history, chat_history')]_vars
\* C18 amended: every operation but one leaves each entry of the history in
\* place and at most appends to it; the Clear Chat History button, pressed
\* while the text input is empty, removes every entry.
C18_AppendOnlyUntilCleared ==
    [][\/ IsPrefix(chat_history, chat_history')
       \/ /\ clicked' = "Clear"
          /\ chat_input = <<>>
          /\ chat_history' = <<>>]_vars
C18_Witness ==
    /\ Len(chat_history) >= 2
    /\ chat_history[1] = UserMessage(QHello)
    /\ chat_history[2] = UserMessage(sample_questions[1])
    /\ clicked = "chat_input"

\* The run showed the history: the messages under its heading.
HistoryDisplayed == \E i \in 1..Len(rendered) : rendered[i] = HistoryHeading
DisplayedMessages ==
    LET at == CHOOSE i \in 1..Len(rendered) : rendered[i] = HistoryHeading
    IN  [i \in 1..(Len(rendered) - at) |-> rendered[at + i].arg]

\* C19: the history is shown in the order of appending, oldest first: what
\* a run displays is chat_history entry by entry, and no operation moves an
\* entry that stays in the history to another position.
C19_SubmissionOrder ==
    /\ [](HistoryDisplayed => DisplayedMessages = chat_history)
    /\ [][\A i \in 1..Len(chat_history) :
             i <= Len(chat_history') => chat_history'[i] = chat_history[i]]_vars
C19_Witness ==
    /\ HistoryDisplayed
    /\ Len(chat_history) >= 2
    /\ chat_history[1] = UserMessage(sample_questions[1])
    /\ chat_history[2] = UserMessage(QHello)
    /\ DisplayedMessages = <<UserMessage(sample_questions[1]), UserMessage(QHello)>>

\* C20: one submission (the text committed in the text input, or Send
\* pressed with a text) adds exactly one exchange, the question and then its
\* answer, to the history; a run that is no submission adds nothing.
C20_OneExchangePerSubmission ==
    [][IF clicked' \in {"chat_input", "Send"} /\ chat_input' # <<>>
       THEN /\ Len(chat_history') = Len(chat_history) + 2
            /\ IsPrefix(chat_history, chat_history')
            /\ chat_history'[Len(chat_history) + 1] = UserMessage(chat_input')
            /\ chat_history'[Len(chat_history) + 2].role = "assistant"
       ELSE chat_history' = chat_history \/ chat_history' = <<>>]_vars

\* C21 as stated: every entry carries a sequence number that is greater than
\* that of every entry appended before it.
C21_SequenceNumbers ==
    \A i \in 1..Len(chat_history) :
        /\ "seq" \in DOMAIN chat_history[i]
        /\ \A j \in 1..(i - 1) : chat_history[j].seq < chat_history[i].seq
\* C21 amended: an entry is a dict of exactly role and content and carries no
\* sequence number; its position in the list, which is greater than that of
\* every entry appended before it, stands for one.  While an entry is in the
\* history its role and content never change, and a new entry takes a
\* position after every entry that is there.
C21_PositionIsSequence ==
    /\ [](\A i \in 1..Len(chat_history) : DOMAIN chat_history[i] = {"role", "content"})
    /\ [][/\ \A i \in 1..Len(chat_history) :
               i <= Len(chat_history') =>
                   /\ chat_history'[i].role = chat_history[i].role
                   /\ chat_history'[i].content = chat_history[i].content
           /\ Len(chat_history') <= Len(chat_history) + 2]_vars
C21_Witness ==
    /\ Len(chat_history) = 3
    /\ chat_history[1] = UserMessage(QHello)
    /\ chat_history[2] = UserMessage(QHello)
    /\ chat_history[3] = UserMessage(sample_questions[1])

\* C23: after any sequence of submissions and Clear clicks the history is
\* user, assistant, user, assistant, ...: of even length, each assistant
\* entry being generate_ai_response of the user entry before it, and no user
\* message is left without its reply.
C23_AlternatingExchanges ==
    /\ Len(chat_history) % 2 = 0
    /\ \A i \in 1..Len(chat_history) :
         IF i % 2 = 1
         THEN chat_history[i].role = "user"
         ELSE /\ chat_history[i].role = "assistant"
              /\ chat_history[i].content
                   = generate_ai_response(chat_history[i - 1].content.chars)

====
